---- MODULE Spec2Model ----
(***************************************************************************)
(* A model of bedrock-ssm-mongodb: the key record store (KeyStorage) with  *)
(* its promise cache, the key record cipher (keySecrets) with its KEK      *)
(* registry, the Core facade with its key-type providers, and the public   *)
(* operations with their zcap invocation guard.                            *)
(*                                                                         *)
(* Objects are functions from property names to values; a property that   *)
(* is `undefined` is absent from the DOMAIN.  Cryptographic primitives are *)
(* symbolic terms (a ciphertext names the key that sealed it).             *)
(***************************************************************************)
EXTENDS Integers, Sequences, FiniteSets, TLC

VARIABLES
  ssm,        \* database.collections.ssm: the stored key records, in insertion order
  inserted,   \* history: per stored record, the key handed to insert and the KEK id its call saw
  cache,      \* the LRU key record cache: entries [id, p, start], most recent first
  promises,   \* the lookup promises made by _getUncachedRecord, by handle
  tasks,      \* per caller: the public operation it is running and where it is
  clock,      \* Date.now() / the cache's clock, in ticks
  config,     \* bedrock.config['ssm-mongodb'].keyRecordEncryption.kek
  KEKS,       \* the KEK registry: KEK id -> secret key bytes
  nops,       \* number of public operations started so far
  cipherIn,   \* record cipher harness: the key handed to the cipher
  cipherOut   \* record cipher harness: what the cipher returned

vars == <<ssm, inserted, cache, promises, tasks, clock, config, KEKS, nops,
          cipherIn, cipherOut>>

-----------------------------------------------------------------------------
(* Bounds of the model *)

\* public operations started in one behaviour
MaxOps == 3
\* last tick of the clock
MaxClock == 2
\* the cache's `max` (config keyRecordCache.maxSize, scaled down)
CacheMax == 1
\* the cache's `ttl` in ticks (config keyRecordCache.maxAge, scaled down)
CacheTtl == 1
\* longest dereferenced capability chain a caller presents
MaxChain == 2
\* generateKey calls in one behaviour of the key generation specification
MaxGenerate == 2

-----------------------------------------------------------------------------
(* Generic helpers on objects *)

Empty == [f \in {} |-> 0]

\* {...a, ...b}
Merge(a, b) ==
  [f \in (DOMAIN a) \cup (DOMAIN b) |-> IF f \in DOMAIN b THEN b[f] ELSE a[f]]

\* delete o[prop]
Without(o, prop) == [f \in (DOMAIN o) \ {prop} |-> o[f]]

\* the properties of o that are in props
Pick(o, props) == [f \in (DOMAIN o) \cap props |-> o[f]]

\* o.prop = v
With(o, prop, v) == Merge(o, [f \in {prop} |-> v])

\* a returned value / a thrown error
Ok(v) == [ok |-> TRUE, value |-> v, name |-> "", message |-> <<>>, cause |-> ""]
Err(n, m, c) == [ok |-> FALSE, value |-> Empty, name |-> n, message |-> m, cause |-> c]

\* JSON.stringify(Object.fromEntries(m)) and JSON.parse of it: the text is
\* the set of its "name": value members
JsonStringify(o) == {<<f, o[f]>> : f \in DOMAIN o}
JsonParse(text) ==
  [f \in {m[1] : m \in text} |-> (CHOOSE m \in text : m[1] = f)[2]]

\* base64url text of some bytes, and the bytes of a base64url text
B64uEncode(bytes) == <<"base64url", bytes>>
B64uDecode(text) == text[2]

-----------------------------------------------------------------------------
(* Key record cipher: lib/keySecrets.js *)

NON_SECRET_PROPERTIES ==
  {"@context", "id", "type", "controller", "publicKeyMultibase",
   "maxCapabilityChainLength", "publicAlias", "publicAliasTemplate"}

\* no `kek` in the configuration
Null == [null |-> TRUE]

\* SUPPORTED_KEK_TYPES: aes-256, multikey header 0xa2 0x01, 32 byte key
KEK_HEADER == <<162, 1>>
KEK_SIZE == 32

\* a multibase text: its header character and the bytes its body decodes to
Multibase(h, bytes) == [header |-> h, bytes |-> bytes]

\* a well-formed aes-256 KEK secret whose 32 key bytes are all n
KekBytes(n) == [i \in 1..KEK_SIZE |-> n]
KekMultibase(n) == Multibase("u", KEK_HEADER \o KekBytes(n))

\* GeneralEncrypt(plaintext).addRecipient(secretKey).encrypt()
GeneralEncrypt(plaintext, secretKey, kekId) ==
  [enc |-> "A256GCM", alg |-> "A256KW", kid |-> kekId,
   sealedWith |-> secretKey, sealed |-> plaintext]

\* generalDecrypt(jwe, secretKey): the plaintext, when the key unseals it
GeneralDecrypt(jwe, secretKey) ==
  IF jwe.sealedWith = secretKey
  THEN Ok(jwe.sealed)
  ELSE Err("JWEDecryptionFailed", <<"decryption operation failed">>, "")

\* _getKek(kekId)
_getKek(keks, kekId) ==
  IF kekId \in DOMAIN keks
  THEN Ok(keks[kekId])
  ELSE Err("NotFoundError", <<"Key encryption key \"", kekId, "\" not found.">>, "")

\* a decryptKeySecrets without the early return: reading kekId and jwe of an
\* undefined `encrypted` throws inside the try block
decryptKeySecretsWithoutReturn(keks, key) ==
  IF "encrypted" \notin DOMAIN key
  THEN Err("OperationError", <<"Could not decrypt key secrets.">>, "TypeError")
  ELSE IF ~_getKek(keks, key["encrypted"].kekId).ok
  THEN Err("OperationError", <<"Could not decrypt key secrets.">>, "NotFoundError")
  ELSE Ok(Without(Merge(key, JsonParse(key["encrypted"].jwe.sealed)), "encrypted"))

\* a decryptKeySecrets that returns the decrypted secrets alone
decryptKeySecretsWithoutMerge(keks, key) ==
  IF "encrypted" \notin DOMAIN key
  THEN Ok(key)
  ELSE IF ~_getKek(keks, key["encrypted"].kekId).ok
  THEN Err("OperationError", <<"Could not decrypt key secrets.">>, "NotFoundError")
  ELSE Ok(JsonParse(key["encrypted"].jwe.sealed))

\* decryptKeySecrets({key}): every failure inside the try block, the KEK
\* lookup included, is rethrown as an OperationError that keeps the cause
decryptKeySecrets(keks, key) ==
  IF "encrypted" \notin DOMAIN key
  THEN Ok(key)
  ELSE LET kek == _getKek(keks, key["encrypted"].kekId)
           opened == GeneralDecrypt(key["encrypted"].jwe, kek.value)
       IN IF ~kek.ok
          THEN Err("OperationError", <<"Could not decrypt key secrets.">>, kek.name)
          ELSE IF ~opened.ok
          THEN Err("OperationError", <<"Could not decrypt key secrets.">>, opened.name)
          ELSE Ok(Without(Merge(key, JsonParse(opened.value)), "encrypted"))

\* config.keyRecordEncryption?.kek?.id
ConfigKekId(cfg) == IF cfg = Null \/ "id" \notin DOMAIN cfg THEN "" ELSE cfg.id

\* an encryptKeySecrets that leaves the secret properties in the key
encryptKeySecretsKeepingSecrets(cfg, keks, key) ==
  IF "encrypted" \in DOMAIN key
  THEN Err("Error",
           <<"Could not encrypt key secrets; key secrets already encrypted.">>, "")
  ELSE IF ConfigKekId(cfg) = "" THEN Ok(key)
  ELSE IF ~_getKek(keks, ConfigKekId(cfg)).ok
  THEN Err("OperationError", <<"Could not encrypt key secrets.">>, "NotFoundError")
  ELSE Ok(With(key, "encrypted",
               [kekId |-> ConfigKekId(cfg),
                jwe |-> GeneralEncrypt(
                          JsonStringify(Pick(key, (DOMAIN key) \ NON_SECRET_PROPERTIES)),
                          keks[ConfigKekId(cfg)], ConfigKekId(cfg))]))

\* an encryptKeySecrets that does not look for an `encrypted` property
encryptKeySecretsUnchecked(cfg, keks, key) ==
  IF ConfigKekId(cfg) = "" THEN Ok(key)
  ELSE IF ~_getKek(keks, ConfigKekId(cfg)).ok
  THEN Err("OperationError", <<"Could not encrypt key secrets.">>, "NotFoundError")
  ELSE Ok(With(Pick(key, NON_SECRET_PROPERTIES), "encrypted",
               [kekId |-> ConfigKekId(cfg),
                jwe |-> GeneralEncrypt(
                          JsonStringify(Pick(key, (DOMAIN key) \ NON_SECRET_PROPERTIES)),
                          keks[ConfigKekId(cfg)], ConfigKekId(cfg))]))

\* encryptKeySecrets({key})
encryptKeySecrets(cfg, keks, key) ==
  IF "encrypted" \in DOMAIN key
  THEN Err("Error",
           <<"Could not encrypt key secrets; key secrets already encrypted.">>, "")
  ELSE LET kekId == ConfigKekId(cfg)
           nonSecrets == Pick(key, NON_SECRET_PROPERTIES)
           secrets == Pick(key, (DOMAIN key) \ NON_SECRET_PROPERTIES)
           kek == _getKek(keks, kekId)
       IN IF kekId = ""
          THEN Ok(key)
          ELSE IF ~kek.ok
          THEN Err("OperationError", <<"Could not encrypt key secrets.">>, kek.name)
          ELSE Ok(With(nonSecrets, "encrypted",
                       [kekId |-> kekId,
                        jwe |-> GeneralEncrypt(JsonStringify(secrets),
                                               kek.value, kekId)]))

\* typeof key.id: an id that is not a string is written as its text along
\* with a `typeofId`
TypeofId(k) ==
  IF "id" \notin DOMAIN k THEN "undefined"
  ELSE IF "typeofId" \in DOMAIN k THEN k.typeofId ELSE "string"

\* a KEK `id` must be a non-empty string
ValidKekId(k) == "id" \in DOMAIN k /\ k.id # "" /\ TypeofId(k) = "string"

\* a _loadKek that takes a key of any size
_loadKekOfAnySize(k) ==
  IF "secretKeyMultibase" \notin DOMAIN k \/ k.secretKeyMultibase.header # "u"
  THEN Err("NotSupportedError",
           <<"Unsupported multibase header; \"u\" for base64url-encoding must be used.">>, "")
  ELSE LET multikey == k.secretKeyMultibase.bytes
           headerMatches == /\ Len(multikey) >= 2
                            /\ multikey[1] = KEK_HEADER[1]
                            /\ multikey[2] = KEK_HEADER[2]
       IN IF ~headerMatches
          THEN Err("NotSupportedError",
                   <<"Unsupported multikey type; only AES-256 is supported.">>, "")
          ELSE Ok(SubSeq(multikey, 3, Len(multikey)))

\* _loadKek(secretKeyMultibase): the secret key bytes, or the error thrown
_loadKek(k) ==
  IF "secretKeyMultibase" \notin DOMAIN k \/ k.secretKeyMultibase.header # "u"
  THEN Err("NotSupportedError",
           <<"Unsupported multibase header; \"u\" for base64url-encoding must be used.">>, "")
  ELSE LET multikey == k.secretKeyMultibase.bytes
           headerMatches == /\ Len(multikey) >= 2
                            /\ multikey[1] = KEK_HEADER[1]
                            /\ multikey[2] = KEK_HEADER[2]
       IN IF ~headerMatches
          THEN Err("NotSupportedError",
                   <<"Unsupported multikey type; only AES-256 is supported.">>, "")
          ELSE IF Len(multikey) # 2 + KEK_SIZE
          THEN Err("DataError",
                   <<"Incorrect multikey size or invalid multikey header.">>, "")
          ELSE Ok(SubSeq(multikey, 3, Len(multikey)))

\* a _loadKeks that registers the id before it loads the secret
_loadKeksRegisteringFirst(cfg) ==
  IF cfg = Null
  THEN Ok(Empty)
  ELSE IF ~ValidKekId(cfg)
  THEN [Err("DataError",
            <<"Invalid key encryption key configuration; key \"id\" must be a string.">>,
            "") EXCEPT !.value = Empty]
  ELSE LET secretKey == _loadKek(cfg)
       IN IF secretKey.ok
          THEN Ok([i \in {cfg.id} |-> secretKey.value])
          ELSE [secretKey EXCEPT !.value = [i \in {cfg.id} |-> <<>>]]

\* _loadKeks(): the registry is cleared first, then the one configured KEK
\* is validated and registered; `value` is the registry left behind, also
\* when the call throws
_loadKeks(cfg) ==
  IF cfg = Null
  THEN Ok(Empty)
  ELSE IF ~ValidKekId(cfg)
  THEN [Err("DataError",
            <<"Invalid key encryption key configuration; key \"id\" must be a string.">>,
            "") EXCEPT !.value = Empty]
  ELSE LET secretKey == _loadKek(cfg)
       IN IF secretKey.ok
          THEN Ok([i \in {cfg.id} |-> secretKey.value])
          ELSE [secretKey EXCEPT !.value = Empty]

-----------------------------------------------------------------------------
(* Key-type providers and the dispatcher: lib/core *)

SYMMETRIC_KEY_TYPES ==
  [AesKeyWrappingKey2019 |-> "https://w3id.org/security/suites/aes-2019/v1",
   Sha256HmacKey2019 |-> "https://w3id.org/security/suites/hmac-2019/v1"]

MULTIKEY_CONTEXT_V1_URL == "https://w3id.org/security/multikey/v1"

\* OPERATIONS: key type -> provider module
OPERATIONS ==
  [Ed25519VerificationKey2018 |-> "_asymmetricKey",
   Ed25519VerificationKey2020 |-> "_asymmetricKey",
   X25519KeyAgreementKey2020 |-> "_keyAgreementKey",
   AesKeyWrappingKey2019 |-> "_symmetricKey",
   Sha256HmacKey2019 |-> "_symmetricKey"]
  @@ [t \in {"urn:webkms:multikey:Ed25519", "urn:webkms:multikey:P-256",
             "urn:webkms:multikey:P-384", "urn:webkms:multikey:P-521",
             "urn:webkms:multikey:BBS-BLS12-381-SHA-256",
             "urn:webkms:multikey:BBS-BLS12-381-SHAKE-256",
             "urn:webkms:multikey:Bls12381G2"} |-> "_asymmetricKey"]

\* the functions each provider module exports
EXPORTS ==
  [_symmetricKey |-> {"generateKey", "sign", "verify", "wrapKey", "unwrapKey"},
   _asymmetricKey |-> {"generateKeyPair", "sign"},
   _keyAgreementKey |-> {"generateKey", "deriveSecret"}]

\* getKeyOp({name, type}): the provider module whose function `name` runs
getKeyOp(name, type) ==
  IF type \notin DOMAIN OPERATIONS
  THEN Err("Error", <<"Unknown key type \"", type, "\".">>, "")
  ELSE IF name \notin EXPORTS[OPERATIONS[type]]
  THEN Err("Error",
           <<"Unsupported operation \"", name, "\" for key type \"", type, "\".">>, "")
  ELSE Ok([module |-> OPERATIONS[type], name |-> name])

\* crypto.randomBytes(32) and a generated key pair, from the random material m
RandomBytes(m) == <<"random", m>>
PublicKeyOf(m) == <<"publicKey", m>>
SecretKeyOf(m) == <<"secretKey", m>>

\* _symmetricKey.generateKey({keyId, type, controller})
symmetricKey_generateKey(keyId, type, controller, m) ==
  IF type \notin DOMAIN SYMMETRIC_KEY_TYPES
  THEN Err("Error", <<"Unknown key type \"", type, "\".">>, "")
  ELSE Ok([keyId |-> keyId,
           key |-> ("@context" :> SYMMETRIC_KEY_TYPES[type]) @@
                   [id |-> keyId, type |-> type,
                    secret |-> B64uEncode(RandomBytes(m))],
           keyDescription |-> ("@context" :> SYMMETRIC_KEY_TYPES[type]) @@
                   [id |-> keyId, type |-> type, controller |-> controller]])

MULTIKEY_SIGNATURE_TYPES ==
  {"urn:webkms:multikey:Ed25519", "urn:webkms:multikey:P-256",
   "urn:webkms:multikey:P-384", "urn:webkms:multikey:P-521",
   "urn:webkms:multikey:BBS-BLS12-381-SHA-256",
   "urn:webkms:multikey:BBS-BLS12-381-SHAKE-256",
   "urn:webkms:multikey:Bls12381G2"}

\* the other types that start with 'urn:webkms:multikey:'
MULTIKEY_AGREEMENT_TYPES ==
  {"urn:webkms:multikey:X25519", "urn:webkms:multikey:ECDH-P-256",
   "urn:webkms:multikey:ECDH-P-384", "urn:webkms:multikey:ECDH-P-521"}

\* _asymmetricKey.generateKeyPair({keyId, type, controller}): the exported
\* pair, and its public half with the controller as description
asymmetricKey_generateKeyPair(keyId, type, controller, m) ==
  IF type \in MULTIKEY_SIGNATURE_TYPES
  THEN Ok([key |-> ("@context" :> MULTIKEY_CONTEXT_V1_URL) @@
                   [id |-> keyId, type |-> type,
                    publicKeyMultibase |-> PublicKeyOf(m),
                    secretKeyMultibase |-> SecretKeyOf(m)],
           keyDescription |-> ("@context" :> MULTIKEY_CONTEXT_V1_URL) @@
                   [id |-> keyId, type |-> "Multikey",
                    publicKeyMultibase |-> PublicKeyOf(m),
                    controller |-> controller]])
  ELSE IF type = "Ed25519VerificationKey2020"
  THEN Ok([key |-> ("@context" :> "https://w3id.org/security/suites/ed25519-2020/v1") @@
                   [id |-> keyId, type |-> type,
                    publicKeyMultibase |-> PublicKeyOf(m),
                    privateKeyMultibase |-> SecretKeyOf(m)],
           keyDescription |->
                   ("@context" :> "https://w3id.org/security/suites/ed25519-2020/v1") @@
                   [id |-> keyId, type |-> type,
                    publicKeyMultibase |-> PublicKeyOf(m),
                    controller |-> controller]])
  ELSE IF type = "Ed25519VerificationKey2018"
  THEN Ok([key |-> ("@context" :> "https://w3id.org/security/suites/ed25519-2018/v1") @@
                   [id |-> keyId, type |-> type,
                    publicKeyBase58 |-> PublicKeyOf(m),
                    privateKeyBase58 |-> SecretKeyOf(m)],
           keyDescription |->
                   ("@context" :> "https://w3id.org/security/suites/ed25519-2018/v1") @@
                   [id |-> keyId, type |-> type,
                    publicKeyBase58 |-> PublicKeyOf(m),
                    controller |-> controller]])
  ELSE IF type \in MULTIKEY_AGREEMENT_TYPES
  THEN Err("NotSupportedError", <<"Unsupported key type \"", type, "\".">>, "")
  ELSE Err("TypeError", <<"Cannot read properties of undefined">>, "")

\* HMAC-SHA-256, AES-KW, and a signature, as terms over their inputs
Hmac(secret, data) == <<"hmac-sha256", secret, data>>
AesKw(secretKey, unwrapped) == <<"aes-kw", secretKey, unwrapped>>
Signature(secretKey, data) == <<"signature", secretKey, data>>
SharedSecret(secretKey, publicKey) == <<"ecdh", secretKey, publicKey>>

\* aesUnwrapKey({secretKey, wrapped}): the integrity check of AES-KW fails
\* for a text that this key did not wrap
aesUnwrapKey(secretKey, wrapped) ==
  IF Len(wrapped) = 3 /\ wrapped[1] = "aes-kw" /\ wrapped[2] = secretKey
  THEN Ok(wrapped[3])
  ELSE Err("Error", <<"Unsupported state or unable to authenticate data">>, "")

\* _symmetricKey.sign({key, operation})
symmetricKey_sign(key, operation) ==
  IF key.type # "Sha256HmacKey2019"
  THEN Err("Error", <<"Unknown key type \"", key.type, "\".">>, "")
  ELSE Ok([signatureValue |->
             B64uEncode(Hmac(B64uDecode(key.secret), B64uDecode(operation.verifyData)))])

\* a verify that checks the signature against the key alone
symmetricKey_verifyOfAnyData(key, operation) ==
  IF key.type # "Sha256HmacKey2019"
  THEN Err("Error", <<"Unknown key type \"", key.type, "\".">>, "")
  ELSE Ok([verified |->
             LET signature == B64uDecode(operation.signatureValue)
             IN /\ Len(signature) = 3
                /\ signature[1] = "hmac-sha256"
                /\ signature[2] = B64uDecode(key.secret)])

\* _symmetricKey.verify({key, operation})
symmetricKey_verify(key, operation) ==
  IF key.type # "Sha256HmacKey2019"
  THEN Err("Error", <<"Unknown key type \"", key.type, "\".">>, "")
  ELSE Ok([verified |->
             B64uDecode(operation.signatureValue) =
               Hmac(B64uDecode(key.secret), B64uDecode(operation.verifyData))])

\* _symmetricKey.wrapKey({kek, operation})
symmetricKey_wrapKey(kek, operation) ==
  IF kek.type # "AesKeyWrappingKey2019"
  THEN Err("Error", <<"Unknown key type \"", kek.type, "\".">>, "")
  ELSE Ok([wrappedKey |->
             B64uEncode(AesKw(B64uDecode(kek.secret), B64uDecode(operation.unwrappedKey)))])

\* an unwrapKey that takes the base64url text of the secret for the secret
symmetricKey_unwrapKeyUndecoded(kek, operation) ==
  IF kek.type # "AesKeyWrappingKey2019"
  THEN Err("Error", <<"Unknown key type \"", kek.type, "\".">>, "")
  ELSE LET output == aesUnwrapKey(kek.secret, B64uDecode(operation.wrappedKey))
       IN IF output.ok
          THEN Ok([unwrappedKey |-> B64uEncode(output.value)])
          ELSE output

\* _symmetricKey.unwrapKey({kek, operation})
symmetricKey_unwrapKey(kek, operation) ==
  IF kek.type # "AesKeyWrappingKey2019"
  THEN Err("Error", <<"Unknown key type \"", kek.type, "\".">>, "")
  ELSE LET output == aesUnwrapKey(B64uDecode(kek.secret), B64uDecode(operation.wrappedKey))
       IN IF output.ok
          THEN Ok([unwrappedKey |-> B64uEncode(output.value)])
          ELSE output

\* _asymmetricKey.sign({key, operation})
asymmetricKey_sign(key, operation) ==
  LET secretProps == (DOMAIN key) \cap
                       {"secretKeyMultibase", "privateKeyMultibase", "privateKeyBase58"}
      secretKey == key[CHOOSE prop \in secretProps : TRUE]
  IN IF secretProps = {}
     THEN Err("Error", <<"No private key to sign with.">>, "")
     ELSE Ok([signatureValue |->
                B64uEncode(Signature(secretKey, B64uDecode(operation.verifyData)))])

\* SUPPORTED_MULTIKEY_TYPES: multikey header (hex) -> key agreement type
SUPPORTED_MULTIKEY_TYPES ==
  ("ec01" :> "urn:webkms:multikey:X25519") @@
  ("8024" :> "urn:webkms:multikey:ECDH-P-256") @@
  ("8124" :> "urn:webkms:multikey:ECDH-P-384") @@
  ("8224" :> "urn:webkms:multikey:ECDH-P-521")

\* the key types whose name includes 'X25519'
X25519_TYPES == {"X25519KeyAgreementKey2020", "urn:webkms:multikey:X25519"}

\* _keyAgreementKey.generateKey({keyId, type, controller})
keyAgreementKey_generateKey(keyId, type, controller, m) ==
  IF type \in {"urn:webkms:multikey:ECDH-P-256", "urn:webkms:multikey:ECDH-P-384",
               "urn:webkms:multikey:ECDH-P-521", "urn:webkms:multikey:X25519"}
  THEN Ok([key |-> ("@context" :> MULTIKEY_CONTEXT_V1_URL) @@
                   [id |-> keyId, type |-> type,
                    publicKeyMultibase |-> PublicKeyOf(m),
                    secretKeyMultibase |-> SecretKeyOf(m)],
           keyDescription |-> ("@context" :> MULTIKEY_CONTEXT_V1_URL) @@
                   [id |-> keyId, type |-> "Multikey",
                    publicKeyMultibase |-> PublicKeyOf(m),
                    controller |-> controller]])
  ELSE IF type \in X25519_TYPES
  THEN Ok([key |-> ("@context" :> "https://w3id.org/security/suites/x25519-2020/v1") @@
                   [id |-> keyId, type |-> type,
                    publicKeyMultibase |-> PublicKeyOf(m),
                    privateKeyMultibase |-> SecretKeyOf(m)],
           keyDescription |->
                   ("@context" :> "https://w3id.org/security/suites/x25519-2020/v1") @@
                   [id |-> keyId, type |-> type,
                    publicKeyMultibase |-> PublicKeyOf(m),
                    controller |-> controller]])
  ELSE Err("NotSupportedError", <<"Unsupported key type \"", type, "\".">>, "")

\* _parseMultikey(mb): a multibase text is <<multibase header, multikey
\* header, bytes>>; <<"undefined">> is no text at all
_parseMultikey(mb) ==
  IF mb[1] \notin {"z", "u"}
  THEN Err("NotSupportedError", <<"Unsupported multibase header \"", mb[1], "\".">>, "")
  ELSE IF mb[2] \notin DOMAIN SUPPORTED_MULTIKEY_TYPES
  THEN Err("NotSupportedError", <<"Unsupported multikey header \"", mb[2], "\".">>, "")
  ELSE Ok(SUPPORTED_MULTIKEY_TYPES[mb[2]])

\* a deriveSecret that imports the key pair before it compares the types
keyAgreementKey_deriveImportFirst(key, operation) ==
  LET publicKey == operation.publicKey
      mb == IF "publicKeyMultibase" \in DOMAIN publicKey
            THEN publicKey.publicKeyMultibase ELSE <<"undefined">>
      parsed == IF publicKey.type = "Multikey" THEN _parseMultikey(mb)
                ELSE Ok(publicKey.type)
      from == IF key.type \in X25519_TYPES
              THEN "X25519KeyAgreementKey2020.from" ELSE "EcdsaMultikey.from"
      secretKey == IF "privateKeyMultibase" \in DOMAIN key
                   THEN key.privateKeyMultibase ELSE key.secretKeyMultibase
  IN IF ~parsed.ok
     THEN [result |-> parsed, calls |-> <<from>>]
     ELSE IF parsed.value # key.type
     THEN [result |->
             Err("Error", <<"The given public key type \"", parsed.value,
                            "\" does not match the key agreement key's type \"",
                            key.type, "\".">>, ""),
           calls |-> <<from>>]
     ELSE [result |-> Ok([secret |-> B64uEncode(SharedSecret(secretKey, mb))]),
           calls |-> <<from, "keyPair.deriveSecret">>]

\* _keyAgreementKey.deriveSecret({key, operation}): what it returns or
\* throws, and the calls of the key pair libraries it has made
keyAgreementKey_derive(key, operation) ==
  LET publicKey == operation.publicKey
      mb == IF "publicKeyMultibase" \in DOMAIN publicKey
            THEN publicKey.publicKeyMultibase ELSE <<"undefined">>
      parsed == IF publicKey.type = "Multikey" THEN _parseMultikey(mb)
                ELSE Ok(publicKey.type)
      type == parsed.value
      x25519 == key.type \in X25519_TYPES
      imported == IF x25519
                  THEN IF type = "urn:webkms:multikey:X25519"
                       THEN With(key, "privateKeyMultibase", key.secretKeyMultibase)
                       ELSE key
                  ELSE With(key, "type", "Multikey")
      secretKey == IF x25519 THEN imported.privateKeyMultibase
                   ELSE imported.secretKeyMultibase
      from == IF x25519 THEN "X25519KeyAgreementKey2020.from" ELSE "EcdsaMultikey.from"
  IN IF ~parsed.ok
     THEN [result |-> parsed, calls |-> <<>>]
     ELSE IF type # key.type
     THEN [result |->
             Err("Error", <<"The given public key type \"", type,
                            "\" does not match the key agreement key's type \"",
                            key.type, "\".">>, ""),
           calls |-> <<>>]
     ELSE [result |-> Ok([secret |-> B64uEncode(SharedSecret(secretKey, mb))]),
           calls |-> <<from, "keyPair.deriveSecret">>]

\* _keyAgreementKey.deriveSecret({key, operation})
keyAgreementKey_deriveSecret(key, operation) == keyAgreementKey_derive(key, operation).result

-----------------------------------------------------------------------------
(* Core facade: lib/core/Core.js *)

\* an option that is never taken as given
GivenNever(o, prop) == FALSE

\* a string option is given when it is present and not empty
Given(o, prop) == prop \in DOMAIN o /\ o[prop] # <<>>

\* parseTemplate(text): a URL template is its sequence of parts, each a
\* literal [lit |-> text] or an expression [var |-> name]; a part
\* [bad |-> TRUE] is an expression that does not parse
parseTemplate(template) ==
  IF \E i \in 1..Len(template) : "bad" \in DOMAIN template[i]
  THEN Err("Error", <<"Invalid template">>, "")
  ELSE Ok(template)

\* template.expand(values): an undefined variable expands to nothing
expand(template, values) ==
  [i \in 1..Len(template) |->
     IF "lit" \in DOMAIN template[i] THEN template[i].lit
     ELSE IF template[i].var \in DOMAIN values THEN values[template[i].var]
     ELSE <<>>]

\* the function a provider module exports under `op.name`, applied
callGenerate(op, keyId, type, controller, m) ==
  IF op.module = "_symmetricKey"
  THEN symmetricKey_generateKey(keyId, type, controller, m)
  ELSE asymmetricKey_generateKeyPair(keyId, type, controller, m)

callOp(op, key, operation) ==
  CASE op.module = "_symmetricKey" /\ op.name = "sign" -> symmetricKey_sign(key, operation)
    [] op.module = "_symmetricKey" /\ op.name = "verify" -> symmetricKey_verify(key, operation)
    [] op.module = "_symmetricKey" /\ op.name = "wrapKey" -> symmetricKey_wrapKey(key, operation)
    [] op.module = "_symmetricKey" /\ op.name = "unwrapKey" ->
         symmetricKey_unwrapKey(key, operation)
    [] op.module = "_asymmetricKey" /\ op.name = "sign" -> asymmetricKey_sign(key, operation)
    [] op.module = "_keyAgreementKey" /\ op.name = "deriveSecret" ->
         keyAgreementKey_deriveSecret(key, operation)

\* Core.generateKey({keyId, controller, operation})
Core_generateKey(keyId, controller, operation, m) ==
  LET target == operation.invocationTarget
      type == target.type
      symmetric == type \in DOMAIN SYMMETRIC_KEY_TYPES
      opName == IF symmetric THEN "generateKey" ELSE "generateKeyPair"
      template == IF Given(target, "publicAliasTemplate")
                  THEN parseTemplate(target.publicAliasTemplate)
                  ELSE Ok(<<>>)
      op == getKeyOp(opName, type)
      generated == callGenerate(op.value, keyId, type, controller, m)
      key0 == generated.value.key
      description0 == generated.value.keyDescription
      key1 == IF "maxCapabilityChainLength" \in DOMAIN target
              THEN With(key0, "maxCapabilityChainLength", target.maxCapabilityChainLength)
              ELSE key0
      key2 == IF Given(target, "publicAlias")
              THEN With(key1, "publicAlias", target.publicAlias)
              ELSE IF Given(target, "publicAliasTemplate")
              THEN With(key1, "publicAliasTemplate", target.publicAliasTemplate)
              ELSE key1
      description2 ==
              IF Given(target, "publicAlias")
              THEN With(description0, "id", target.publicAlias)
              ELSE IF Given(target, "publicAliasTemplate")
              THEN With(description0, "id", expand(template.value, description0))
              ELSE description0
  IN IF Given(target, "publicAlias") /\ Given(target, "publicAliasTemplate")
     THEN Err("Error",
              <<"Only one of \"publicAlias\" or \"publicAliasTemplate\" may be given.">>, "")
     ELSE IF symmetric /\ (Given(target, "publicAlias") \/ Given(target, "publicAliasTemplate"))
     THEN Err("Error",
              <<"Neither \"publicAlias\" nor \"publicAliasTemplate\" are supported by key type ",
                type, ".">>, "")
     ELSE IF ~template.ok THEN template
     ELSE IF ~op.ok THEN op
     ELSE IF ~generated.ok THEN generated
     ELSE Ok([keyId |-> keyId, key |-> key2, keyDescription |-> description2])

\* a getKeyDescription that reports the controller kept with the key
Core_getKeyDescriptionOfStoredController(key, controller) ==
  LET type == IF key.type \in MULTIKEY_SIGNATURE_TYPES \cup MULTIKEY_AGREEMENT_TYPES
              THEN "Multikey" ELSE key.type
      base == ("@context" :> key["@context"]) @@ [id |-> key.id, type |-> type]
      owned == IF "controller" \in DOMAIN key
               THEN With(base, "controller", key.controller) ELSE base
      description == IF "publicKeyMultibase" \in DOMAIN key
                     THEN With(owned, "publicKeyMultibase", key.publicKeyMultibase)
                     ELSE owned
  IN IF Given(key, "publicAlias")
     THEN Ok(With(description, "id", key.publicAlias))
     ELSE IF Given(key, "publicAliasTemplate")
     THEN Ok(With(description, "id", expand(key.publicAliasTemplate, description)))
     ELSE Ok(description)

\* a getKeyDescription that reports the type as it is stored
Core_getKeyDescriptionOfStoredType(key, controller) ==
  LET base == ("@context" :> key["@context"]) @@
              [id |-> key.id, type |-> key.type, controller |-> controller]
      description == IF "publicKeyMultibase" \in DOMAIN key
                     THEN With(base, "publicKeyMultibase", key.publicKeyMultibase)
                     ELSE base
  IN IF Given(key, "publicAlias")
     THEN Ok(With(description, "id", key.publicAlias))
     ELSE IF Given(key, "publicAliasTemplate")
     THEN Ok(With(description, "id", expand(key.publicAliasTemplate, description)))
     ELSE Ok(description)

\* Core.getKeyDescription({key, controller})
Core_getKeyDescription(key, controller) ==
  LET type == IF key.type \in MULTIKEY_SIGNATURE_TYPES \cup MULTIKEY_AGREEMENT_TYPES
              THEN "Multikey" ELSE key.type
      base == ("@context" :> key["@context"]) @@
              [id |-> key.id, type |-> type, controller |-> controller]
      description == IF "publicKeyMultibase" \in DOMAIN key
                     THEN With(base, "publicKeyMultibase", key.publicKeyMultibase)
                     ELSE base
      template == parseTemplate(key.publicAliasTemplate)
  IN IF Given(key, "publicAlias")
     THEN Ok(With(description, "id", key.publicAlias))
     ELSE IF Given(key, "publicAliasTemplate")
     THEN IF template.ok
          THEN Ok(With(description, "id", expand(template.value, description)))
          ELSE template
     ELSE Ok(description)

\* a facade that answers nothing when the dispatcher refuses
Core_operationUnrefused(name, key, operation) ==
  LET op == getKeyOp(name, key.type)
  IN IF op.ok THEN callOp(op.value, key, operation) ELSE Ok(Empty)

\* Core.wrapKey / unwrapKey / sign / verify / deriveSecret ({key, operation})
Core_operation(name, key, operation) ==
  LET op == getKeyOp(name, key.type)
  IN IF op.ok THEN callOp(op.value, key, operation) ELSE op

-----------------------------------------------------------------------------
(* The zcap invocation guard: lib/index.js *)

\* a guard that also rejects a chain as long as the limit
_checkZcapInvocationRulesAtLimit(key, zcapInvocation) ==
  IF zcapInvocation # Null /\ "maxCapabilityChainLength" \in DOMAIN key
     /\ Len(zcapInvocation.dereferencedChain) >= key.maxCapabilityChainLength
  THEN Err("Error", <<"Maximum zcap invocation capability chain length (",
                      ToString(key.maxCapabilityChainLength), ") exceeded.">>, "")
  ELSE Ok(Empty)

\* _checkZcapInvocationRules({key, zcapInvocation}); Null is no invocation
_checkZcapInvocationRules(key, zcapInvocation) ==
  IF zcapInvocation = Null
  THEN Ok(Empty)
  ELSE IF "maxCapabilityChainLength" \notin DOMAIN key
  THEN Ok(Empty)
  ELSE IF Len(zcapInvocation.dereferencedChain) > key.maxCapabilityChainLength
  THEN Err("Error", <<"Maximum zcap invocation capability chain length (",
                      ToString(key.maxCapabilityChainLength), ") exceeded.">>, "")
  ELSE Ok(Empty)

-----------------------------------------------------------------------------
(* Key storage: lib/storage/KeyStorage.js *)

\* _splitKeyId({id}): an id is the sequence of its path segments; the last
\* one, `z<base58>`, is <<multibase header, multicodec tag, random value>>
\* and only the random value is kept as localId
_splitKeyId(id) ==
  [keystoreId |-> SubSeq(id, 1, Len(id) - 1), localId |-> id[Len(id)][3]]

\* the records of the collection that a {keystoreId, localId} query matches
Matches(collection, query) ==
  {i \in 1..Len(collection) :
     /\ collection[i].keystoreId = query.keystoreId
     /\ collection[i].localId = query.localId}

\* insertOne on a collection that has no unique index
insertOneWithoutIndex(collection, record) == Ok(Append(collection, record))

\* an insertOne that replaces the record of the same keystore and local id
insertOneReplacing(collection, record) ==
  IF Matches(collection, record) # {}
  THEN Ok([collection EXCEPT ![CHOOSE i \in Matches(collection, record) : TRUE] = record])
  ELSE Ok(Append(collection, record))

\* collection.insertOne(record) under the unique index on
\* {keystoreId, localId}: the collection afterwards, or the duplicate error
insertOne(collection, record) ==
  IF Matches(collection, record) # {}
  THEN Err("MongoServerError", <<"E11000 duplicate key error collection">>, "")
  ELSE Ok(Append(collection, record))

\* a count of the documents of every keystore
countDocumentsOfAll(collection, keystoreId) == Len(collection)

\* collection.countDocuments({keystoreId})
countDocuments(collection, keystoreId) ==
  Cardinality({i \in 1..Len(collection) : collection[i].keystoreId = keystoreId})

\* the part of KeyStorage.insert({key}) before the write: the record to store
KeyStorage_record(cfg, keks, key, now) ==
  LET stripped == Without(key, "controller")
      split == _splitKeyId(stripped.id)
      encrypted == encryptKeySecrets(cfg, keks, stripped)
  IN IF encrypted.ok
     THEN Ok([keystoreId |-> split.keystoreId, localId |-> split.localId,
              meta |-> [created |-> now, updated |-> now],
              key |-> encrypted.value])
     ELSE encrypted

\* insertOne on a collection whose database cannot be reached
insertOneUnreachable(collection, record) ==
  Err("MongoNetworkError", <<"connection closed">>, "")

\* database.isDuplicateError(e)
isDuplicateError(e) ==
  e.name = "MongoServerError" /\ e.message[1] = "E11000 duplicate key error collection"

\* a KeyStorage.insert that reports every failed write as a duplicate
KeyStorage_insertedAsDuplicate(collection, written) ==
  IF written.ok
  THEN written
  ELSE [Err("DuplicateError", <<"Duplicate key identifier.">>, written.name)
          EXCEPT !.value = collection]

\* the try/catch around the write of KeyStorage.insert: `value` is the
\* collection afterwards
KeyStorage_inserted(collection, written) ==
  IF written.ok
  THEN written
  ELSE IF ~isDuplicateError(written)
  THEN [written EXCEPT !.value = collection]
  ELSE [Err("DuplicateError", <<"Duplicate key identifier.">>, written.name)
          EXCEPT !.value = collection]

\* the write of KeyStorage.insert
KeyStorage_insertOne(collection, record) ==
  KeyStorage_inserted(collection, insertOne(collection, record))

\* what _getUncachedRecord({id}) settles its promise with, given the record
\* that findOne found (projection {_id: 0, key: 1, meta: 1}) or none
_getUncachedRecord(collection, found) ==
  IF found = 0
  THEN Err("NotFoundError", <<"Key not found.">>, "")
  ELSE Ok(Pick(collection[found], {"key", "meta"}))

\* the part of KeyStorage.get({id}) after the lookup: decrypt, {...record, key}
KeyStorage_get(keks, record) ==
  LET key == decryptKeySecrets(keks, record.key)
  IN IF key.ok THEN Ok(With(record, "key", key.value)) ELSE key

\* a KeyStorage.get that decrypts the key of the record object in place
KeyStorage_getInPlace(keks, record) ==
  LET key == decryptKeySecrets(keks, record.key)
  IN IF key.ok THEN With(record, "key", key.value) ELSE record

\* the record object that the lookup's promise holds, after KeyStorage.get
\* has run on it: decryptKeySecrets makes a new key object ({...key,
\* ...secrets}, then delete on the copy) and get a new record ({...record,
\* key}), so the object is as it was
KeyStorage_getLeaves(keks, record) == record

-----------------------------------------------------------------------------
(* The key record cache: an LRU of lookup promises with `max` and `ttl` *)

\* position of the entry for id, 0 when there is none
Position(c, id) ==
  IF \E i \in 1..Len(c) : c[i].id = id
  THEN CHOOSE i \in 1..Len(c) : c[i].id = id
  ELSE 0

Remove(c, i) == SubSeq(c, 1, i - 1) \o SubSeq(c, i + 1, Len(c))

\* an entry outlives its ttl
IsStale(entry, now) == CacheTtl # 0 /\ now - entry.start > CacheTtl

\* a cache.get that answers with the most recently used entry, whatever its id
LRU_getAnyEntry(c, id, now) ==
  IF c = <<>> THEN [value |-> 0, cache |-> c] ELSE [value |-> c[1].p, cache |-> c]

\* a cache.get that starts the age of the entry it returns anew
LRU_getUpdatingAge(c, id, now) ==
  LET i == Position(c, id)
  IN IF i = 0 THEN [value |-> 0, cache |-> c]
     ELSE IF IsStale(c[i], now) THEN [value |-> 0, cache |-> Remove(c, i)]
     ELSE [value |-> c[i].p, cache |-> <<[c[i] EXCEPT !.start = now]>> \o Remove(c, i)]

\* cache.get(id): a stale entry is deleted and not returned; a live one
\* becomes the most recently used.  `value` 0 is undefined
LRU_get(c, id, now) ==
  LET i == Position(c, id)
  IN IF i = 0 THEN [value |-> 0, cache |-> c]
     ELSE IF IsStale(c[i], now) THEN [value |-> 0, cache |-> Remove(c, i)]
     ELSE [value |-> c[i].p, cache |-> <<c[i]>> \o Remove(c, i)]

\* cache.set(id, p): replaces the entry for id, or evicts the least
\* recently used entry when the cache is full
LRU_set(c, id, p, now) ==
  LET i == Position(c, id)
      rest == IF i # 0 THEN Remove(c, i)
              ELSE IF Len(c) >= CacheMax THEN SubSeq(c, 1, CacheMax - 1)
              ELSE c
  IN <<[id |-> id, p |-> p, start |-> now]>> \o rest

\* a cache.delete that removes nothing
LRU_deleteNothing(c, id) == c

\* a cache.delete that clears the cache
LRU_deleteAll(c, id) == <<>>

\* cache.delete(id)
LRU_delete(c, id) ==
  LET i == Position(c, id)
  IN IF i = 0 THEN c ELSE Remove(c, i)

-----------------------------------------------------------------------------
(* The callers and their public operations *)

Callers == {"c1", "c2"}

\* a caller that runs no operation
IdleTask ==
  [op |-> "none", pc |-> "idle", id |-> <<>>, opno |-> 0, role |-> "none",
   p |-> 0, zcapInvocation |-> Null, controller |-> "", operation |-> Empty,
   record |-> Empty, key |-> Empty, returns |-> Empty, kekSeen |-> "",
   result |-> Ok(Empty), work |-> <<>>, guard |-> "none",
   hadRecord |-> FALSE, missed |-> FALSE, joinedInFlight |-> FALSE,
   failedBefore |-> 0, writes |-> 0, raised |-> Ok(Empty), at |-> 0,
   fetched |-> Ok(Empty), kekMissing |-> FALSE, duplicate |-> FALSE]

\* the caller may start an operation
MayStart(c) == tasks[c].pc \in {"idle", "done"} /\ nops < MaxOps

Started(c, op, id) ==
  [IdleTask EXCEPT !.op = op, !.id = id, !.opno = nops + 1]

\* the latest lookup for id whose failure its creator has seen, 0 if none
LastFailed(id) ==
  LET failed == {p \in 1..Len(promises) :
                   /\ promises[p].id = id
                   /\ promises[p].state = "rejected"
                   /\ promises[p].delivered}
  IN IF failed = {} THEN 0 ELSE CHOOSE p \in failed : \A q \in failed : q <= p

\* generateKey persists the generated key via Storage: the record to write
generateKey_insert(made, cfg, keks, now) ==
  KeyStorage_record(cfg, keks, made.key, now)

\* generateKey({keyId, controller, operation}) up to the write: the key is
\* generated by Core and the record is prepared and encrypted
GenerateKey(c, keyId, controller, invocationTarget, m) ==
  /\ MayStart(c)
  /\ LET made == Core_generateKey(keyId, controller,
                                  [invocationTarget |-> invocationTarget], m)
         record == generateKey_insert(made.value, config, KEKS, clock)
         task == [Started(c, "generateKey", keyId) EXCEPT
                    !.controller = controller,
                    !.operation = [invocationTarget |-> invocationTarget],
                    !.hadRecord = (Matches(ssm, _splitKeyId(keyId)) # {})]
     IN tasks' = [tasks EXCEPT ![c] =
          IF ~made.ok
          THEN [task EXCEPT !.pc = "done", !.result = made]
          ELSE IF ~record.ok
          THEN [task EXCEPT !.pc = "done", !.result = record,
                            !.key = made.value.key, !.kekSeen = ConfigKekId(config)]
          ELSE [task EXCEPT !.pc = "inserting", !.record = record.value,
                            !.key = made.value.key, !.returns = made.value,
                            !.kekSeen = ConfigKekId(config)]]
  /\ nops' = nops + 1
  /\ UNCHANGED <<ssm, inserted, cache, promises, clock, config, KEKS, cipherIn, cipherOut>>

\* the write of KeyStorage.insert reaches the database, and generateKey
\* returns what Core.generateKey returned
Written(c, raised) ==
  /\ tasks[c].pc = "inserting"
  /\ LET record == tasks[c].record
         written == KeyStorage_inserted(ssm, raised)
     IN /\ ssm' = written.value
        /\ inserted' = IF written.ok
                       THEN Append(inserted,
                              [key |-> tasks[c].key, kekId |-> tasks[c].kekSeen,
                               controller |-> tasks[c].controller,
                               keyDescription |-> tasks[c].returns.keyDescription])
                       ELSE inserted
        /\ tasks' = [tasks EXCEPT ![c] =
             [@ EXCEPT !.pc = "done",
                       !.duplicate = (Matches(ssm, record) # {}),
                       !.writes = @ + 1,
                       !.raised = [raised EXCEPT !.value = Empty],
                       !.result = IF written.ok THEN Ok(tasks[c].returns)
                                  ELSE [written EXCEPT !.value = Empty]]]
  /\ UNCHANGED <<cache, promises, clock, config, KEKS, nops, cipherIn, cipherOut>>

\* the database answers the write of KeyStorage.insert
InsertOne(c) == Written(c, insertOne(ssm, tasks[c].record))

\* the write of KeyStorage.insert fails because the database cannot be
\* reached
InsertOneFails(c) == Written(c, insertOneUnreachable(ssm, tasks[c].record))

\* a public operation on a stored key begins: KeyStorage.get({id}) reaches
\* _getCachedRecord, which returns the cached promise or starts a lookup,
\* caches its promise and awaits it
Get(c, op, id, controller, operation, zcapInvocation) ==
  /\ MayStart(c)
  /\ LET got == LRU_get(cache, id, clock)
         p == Len(promises) + 1
         task == [Started(c, op, id) EXCEPT
                    !.pc = "awaiting", !.controller = controller,
                    !.operation = operation, !.zcapInvocation = zcapInvocation,
                    !.hadRecord = (Matches(ssm, _splitKeyId(id)) # {}),
                    !.missed = (got.value = 0),
                    !.failedBefore = LastFailed(id),
                    !.at = clock]
     IN IF got.value # 0
        THEN /\ cache' = got.cache
             /\ promises' = promises
             /\ tasks' = [tasks EXCEPT ![c] =
                  [task EXCEPT !.role = "joiner", !.p = got.value,
                               !.joinedInFlight = ~promises[got.value].delivered]]
        ELSE /\ promises' = Append(promises,
                  [id |-> id, state |-> "pending", outcome |-> Ok(Empty),
                   creator |-> c, opno |-> nops + 1, delivered |-> FALSE,
                   deliveredAt |-> 0, fetchedAt |-> 0])
             /\ cache' = LRU_set(got.cache, id, p, clock)
             /\ tasks' = [tasks EXCEPT ![c] =
                  [task EXCEPT !.role = "creator", !.p = p]]
  /\ nops' = nops + 1
  /\ UNCHANGED <<ssm, inserted, clock, config, KEKS, cipherIn, cipherOut>>

\* the database answers the findOne of a lookup, and _getUncachedRecord
\* settles the lookup's promise
FindOne(p) ==
  /\ p \in 1..Len(promises)
  /\ promises[p].state = "pending"
  /\ LET matches == Matches(ssm, _splitKeyId(promises[p].id))
     IN \E found \in (IF matches = {} THEN {0} ELSE matches) :
          LET outcome == _getUncachedRecord(ssm, found)
          IN promises' = [promises EXCEPT ![p] =
               [@ EXCEPT !.outcome = outcome,
                         !.fetchedAt = clock,
                         !.state = IF outcome.ok THEN "fulfilled" ELSE "rejected"]]
  /\ UNCHANGED <<ssm, inserted, cache, tasks, clock, config, KEKS, nops, cipherIn, cipherOut>>

\* the rest of a public operation once _getCachedRecord has handed it the
\* key record: KeyStorage.get decrypts the key, then the operation checks
\* the zcap invocation rules and calls Core
Continue(task, keks, record) ==
  LET got == KeyStorage_get(keks, record)
      decrypting == "encrypted" \in DOMAIN record.key
      decrypted == IF decrypting THEN <<"decryptKeySecrets">> ELSE <<>>
      key == got.value.key
      guard == _checkZcapInvocationRules(key, task.zcapInvocation)
      dispatched == getKeyOp(task.op, key.type).ok
      done == [task EXCEPT !.pc = "done", !.fetched = Ok(record), !.work = decrypted,
                           !.kekMissing = /\ decrypting
                                          /\ record.key["encrypted"].kekId \notin DOMAIN keks]
  IN IF ~got.ok
     THEN [done EXCEPT !.result = got]
     ELSE IF task.op = "getKeyDescription"
     THEN [done EXCEPT !.result = Core_getKeyDescription(key, task.controller)]
     ELSE IF ~guard.ok
     THEN [done EXCEPT !.result = guard, !.guard = "rejected"]
     ELSE [done EXCEPT !.result = Core_operation(task.op, key, task.operation),
                       !.guard = "passed",
                       !.work = IF dispatched THEN Append(decrypted, task.op) ELSE decrypted]

\* the promise an operation awaits has settled and the operation runs on:
\* the lookup's creator first (it deletes the cache entry of the id when the
\* lookup failed), the operations that joined the promise after it
Resume(c) ==
  /\ tasks[c].pc = "awaiting"
  /\ LET p == tasks[c].p
         promise == promises[p]
         creator == tasks[c].role = "creator"
     IN /\ promise.state # "pending"
        /\ creator \/ promise.delivered
        /\ promises' = [promises EXCEPT ![p] =
             [@ EXCEPT !.delivered = IF creator THEN TRUE ELSE @,
                       !.deliveredAt = IF creator THEN nops ELSE @,
                       !.outcome = IF promise.state = "fulfilled"
                                   THEN [@ EXCEPT !.value = KeyStorage_getLeaves(KEKS, @)]
                                   ELSE @]]
        /\ cache' = IF creator /\ promise.state = "rejected"
                    THEN LRU_delete(cache, tasks[c].id)
                    ELSE cache
        /\ tasks' = [tasks EXCEPT ![c] =
             IF promise.state = "rejected"
             THEN [@ EXCEPT !.pc = "done", !.result = promise.outcome,
                            !.fetched = promise.outcome]
             ELSE Continue(tasks[c], KEKS, promise.outcome.value)]
  /\ UNCHANGED <<ssm, inserted, clock, config, KEKS, nops, cipherIn, cipherOut>>

\* getKeyCount({keystoreId}): the database counts the keystore's records
GetKeyCount(c, keystoreId) ==
  /\ MayStart(c)
  /\ tasks' = [tasks EXCEPT ![c] =
       [Started(c, "getKeyCount", keystoreId) EXCEPT
          !.pc = "done",
          !.result = Ok([count |-> countDocuments(ssm, keystoreId)])]]
  /\ nops' = nops + 1
  /\ UNCHANGED <<ssm, inserted, cache, promises, clock, config, KEKS, cipherIn, cipherOut>>

\* another process changes a stored key record, at a later instant than
\* everything before it
AdminChange(i) ==
  /\ i \in 1..Len(ssm)
  /\ clock < MaxClock
  /\ clock' = clock + 1
  /\ ssm' = [ssm EXCEPT ![i] =
       [@ EXCEPT !.meta = [@ EXCEPT !.updated = clock + 1],
                 !.key = With(@, "maxCapabilityChainLength", clock + 1)]]
  /\ UNCHANGED <<inserted, cache, promises, tasks, config, KEKS, nops, cipherIn, cipherOut>>

\* time passes
Tick ==
  /\ clock < MaxClock
  /\ clock' = clock + 1
  /\ UNCHANGED <<ssm, inserted, cache, promises, tasks, config, KEKS, nops, cipherIn, cipherOut>>

\* the configuration's keyRecordEncryption.kek is set
SetKek(kek) ==
  /\ config # kek
  /\ config' = kek
  /\ UNCHANGED <<ssm, inserted, cache, promises, tasks, clock, KEKS, nops, cipherIn, cipherOut>>

\* _loadKeks() is called
LoadKeks ==
  /\ KEKS' = _loadKeks(config).value
  /\ UNCHANGED <<ssm, inserted, cache, promises, tasks, clock, config, nops, cipherIn, cipherOut>>

\* what the cipher harness keeps of a call: the operation, its result, the
\* configured KEK id and the registry the call saw, and the call before it
CipherCall(op, result) ==
  [op |-> op, result |-> result, kekId |-> ConfigKekId(config), keks |-> KEKS,
   before |-> [op |-> cipherOut.op, input |-> cipherIn, output |-> cipherOut.result]]

\* the record cipher is called on its own
Encrypt(key) ==
  /\ cipherIn' = key
  /\ cipherOut' = CipherCall("encryptKeySecrets", encryptKeySecrets(config, KEKS, key))
  /\ UNCHANGED <<ssm, inserted, cache, promises, tasks, clock, config, KEKS, nops>>

Decrypt(key) ==
  /\ cipherIn' = key
  /\ cipherOut' = CipherCall("decryptKeySecrets", decryptKeySecrets(KEKS, key))
  /\ UNCHANGED <<ssm, inserted, cache, promises, tasks, clock, config, KEKS, nops>>

-----------------------------------------------------------------------------
(* Inputs *)

\* <keystoreId>/z<base58 of 0x00 0x10 and a random value>
KeyId(keystore, value) == <<keystore, <<"z", "0010", value>>>>

\* a well-formed KEK configuration
Kek(id, n) == [id |-> id, secretKeyMultibase |-> KekMultibase(n)]

\* a zcap invocation whose dereferenced capability chain has n capabilities
ZcapInvocation(n) == [dereferencedChain |-> [i \in 1..n |-> "zcap"]]

\* the KMS operation a caller sends for a public operation
Operation(op) ==
  CASE op \in {"sign"} -> [verifyData |-> B64uEncode("data")]
    [] op = "verify" ->
         [verifyData |-> B64uEncode("data"),
          signatureValue |-> B64uEncode(Hmac(RandomBytes("m1"), "data"))]
    [] op = "wrapKey" -> [unwrappedKey |-> B64uEncode("cek")]
    [] op = "unwrapKey" -> [wrappedKey |-> B64uEncode(AesKw(RandomBytes("m1"), "cek"))]
    [] op = "deriveSecret" ->
         [publicKey |-> [type |-> "X25519KeyAgreementKey2020",
                         publicKeyMultibase |-> PublicKeyOf("peer")]]
    [] OTHER -> Empty

InitCommon ==
  /\ ssm = <<>>
  /\ inserted = <<>>
  /\ cache = <<>>
  /\ promises = <<>>
  /\ tasks = [c \in Callers |-> IdleTask]
  /\ clock = 0
  /\ nops = 0
  /\ cipherIn = Empty
  /\ cipherOut = [op |-> "none", result |-> Ok(Empty), kekId |-> "", keks |-> Empty,
                  before |-> [op |-> "none", input |-> Empty, output |-> Ok(Empty)]]

-----------------------------------------------------------------------------
(* The key store and its cache under concurrent callers, no KEK configured *)

StoreIds == {KeyId("ks1", "A"), KeyId("ks1", "B")}

InitStore == InitCommon /\ config = Null /\ KEKS = _loadKeks(Null).value

NextStore ==
  \/ \E c \in Callers, id \in StoreIds, m \in {"m1", "m2"} :
       GenerateKey(c, id, "did:ex:controller", [type |-> "Sha256HmacKey2019"], m)
  \/ \E c \in Callers : InsertOne(c)
  \/ \E c \in Callers, id \in StoreIds :
       Get(c, "getKeyDescription", id, "did:ex:controller", Empty, Null)
  \/ \E p \in 1..Len(promises) : FindOne(p)
  \/ \E c \in Callers : Resume(c)
  \/ Tick

SpecStore == InitStore /\ [][NextStore]_vars

\* the lookups of an id whose findOne the database has not answered yet
InFlight(id) ==
  {p \in 1..Len(promises) : promises[p].id = id /\ promises[p].state = "pending"}

\* the stored records of an id, and the key first inserted under it
RecordsOf(id) == Matches(ssm, _splitKeyId(id))
FirstKeyOf(id) == inserted[CHOOSE i \in RecordsOf(id) : \A j \in RecordsOf(id) : i <= j].key

\* C1: the store holds at most one record per (keystoreId, localId); a
\* generateKey whose insert finds a record of its id fails with
\* DuplicateError and returns nothing; no stored record ever changes; and a
\* getKeyDescription that succeeds describes the key first inserted.
C1_State ==
  /\ \A i, j \in 1..Len(ssm) :
       (ssm[i].keystoreId = ssm[j].keystoreId /\ ssm[i].localId = ssm[j].localId) => i = j
  /\ \A c \in Callers :
       (tasks[c].op = "generateKey" /\ tasks[c].pc = "done" /\ tasks[c].duplicate) =>
         /\ ~tasks[c].result.ok
         /\ tasks[c].result.name = "DuplicateError"
         /\ tasks[c].result.value = Empty
  /\ \A c \in Callers :
       (tasks[c].op = "getKeyDescription" /\ tasks[c].pc = "done" /\ tasks[c].result.ok) =>
         tasks[c].result =
           Core_getKeyDescription(Without(FirstKeyOf(tasks[c].id), "controller"),
                                  tasks[c].controller)
C1_Step == \A i \in 1..Len(ssm) : Len(ssm') >= i /\ ssm'[i] = ssm[i]
C2_SingleFlight == \A id \in StoreIds : Cardinality(InFlight(id)) <= 1

\* the database answers every findOne and every continuation gets to run
FairStore ==
  /\ SpecStore
  /\ \A p \in 1..MaxOps : WF_vars(FindOne(p))
  /\ \A c \in Callers : WF_vars(Resume(c))

\* the caller got its lookup promise from the cache
Joined(c) == tasks[c].role = "joiner" /\ tasks[c].pc \in {"awaiting", "done"}

\* C3: a caller that joins a lookup of its key id is handed the outcome of
\* that one lookup, the same record or the same failure as its creator; it
\* starts no lookup of its own; and it is not left waiting forever.
C3_Outcome ==
  \A c \in Callers : Joined(c) =>
    LET promise == promises[tasks[c].p]
    IN /\ promise.id = tasks[c].id
       /\ promise.creator # c \/ promise.opno < tasks[c].opno
       /\ \A q \in 1..Len(promises) : promises[q].opno # tasks[c].opno
       /\ tasks[c].pc = "done" =>
            /\ promise.delivered
            /\ tasks[c].fetched = promise.outcome
            /\ ~promise.outcome.ok => tasks[c].result = promise.outcome
            /\ \A d \in Callers :
                 (tasks[d].pc = "done" /\ tasks[d].p = tasks[c].p /\ tasks[d].op = tasks[c].op) =>
                   tasks[d].result = tasks[c].result
C3_Joiners ==
  /\ [](C3_Outcome)
  /\ \A c \in Callers : (tasks[c].pc = "awaiting") ~> (tasks[c].pc = "done")

\* a caller joined a lookup that was in flight and got its NotFoundError,
\* as did the caller that started the lookup
C3_Witness ==
  \E c, d \in Callers :
    /\ Joined(c) /\ tasks[c].pc = "done" /\ tasks[c].joinedInFlight
    /\ tasks[c].result.name = "NotFoundError"
    /\ tasks[d].role = "creator" /\ tasks[d].pc = "done" /\ tasks[d].p = tasks[c].p
    /\ tasks[d].result = tasks[c].result

\* the caller runs or has run an operation that fetches a key record
Fetching(c) == tasks[c].role \in {"creator", "joiner"}

-----------------------------------------------------------------------------
(* The public operations on one key id, with a KEK configured and changed *)

OpsId == KeyId("ks1", "A")

GatedOps == {"wrapKey", "unwrapKey", "sign", "verify", "deriveSecret"}

OpsTypes == {"Sha256HmacKey2019", "AesKeyWrappingKey2019", "urn:webkms:multikey:Ed25519"}

\* what a caller asks generateKey for: a type, with or without a limit on
\* the capability chain
OpsTargets ==
  {[type |-> t] : t \in OpsTypes} \cup
  {[type |-> t, maxCapabilityChainLength |-> n] : t \in OpsTypes, n \in 1..(MaxChain - 1)}

\* a target of a type that OPERATIONS has no provider for
OpsUnknownTargets == {[type |-> "urn:webkms:multikey:X25519"]}

ZcapInvocations == {Null} \cup {ZcapInvocation(n) : n \in 1..MaxChain}

Keks == {Null, Kek("kek1", 1), Kek("kek2", 2)}

InitOps == InitCommon /\ config = Kek("kek1", 1) /\ KEKS = _loadKeks(Kek("kek1", 1)).value

NextOps ==
  \/ \E target \in OpsTargets \cup OpsUnknownTargets :
       GenerateKey("c1", OpsId, "did:ex:controller", target, "m1")
  \/ InsertOne("c1")
  \/ \E op \in GatedOps, zcapInvocation \in ZcapInvocations :
       Get("c1", op, OpsId, "did:ex:controller", Operation(op), zcapInvocation)
  \/ Get("c1", "getKeyDescription", OpsId, "did:ex:controller", Empty, Null)
  \/ GetKeyCount("c1", <<"ks1">>)
  \/ \E p \in 1..Len(promises) : FindOne(p)
  \/ Resume("c1")
  \/ \E kek \in Keks : SetKek(kek)
  \/ LoadKeks

SpecOps == InitOps /\ [][NextOps]_vars

\* the caller's gated operation has come to the guard
AtGuard(c) ==
  tasks[c].pc = "done" /\ tasks[c].op \in GatedOps /\ tasks[c].guard # "none"

\* the stored key of the caller's operation, as generateKey made it
KeyOf(c) == Without(FirstKeyOf(tasks[c].id), "controller")

\* the chain of the caller's zcap invocation is longer than the key's limit
Exceeded(c) ==
  /\ tasks[c].zcapInvocation # Null
  /\ "maxCapabilityChainLength" \in DOMAIN KeyOf(c)
  /\ Len(tasks[c].zcapInvocation.dereferencedChain) > KeyOf(c).maxCapabilityChainLength

\* C5: wrapKey, unwrapKey, sign, verify and deriveSecret are rejected by the
\* guard exactly when a zcap invocation is given, the key has a
\* maxCapabilityChainLength and the dereferenced chain is longer than it;
\* the error then names the limit and nothing is returned; otherwise the
\* operation proceeds to Core.
C5_Guard ==
  \A c \in Callers : AtGuard(c) =>
    /\ (tasks[c].guard = "rejected") <=> Exceeded(c)
    /\ Exceeded(c) =>
         /\ ~tasks[c].result.ok
         /\ tasks[c].result.name = "Error"
         /\ tasks[c].result.message =
              <<"Maximum zcap invocation capability chain length (",
                ToString(KeyOf(c).maxCapabilityChainLength), ") exceeded.">>
         /\ tasks[c].result.value = Empty
    /\ ~Exceeded(c) =>
         tasks[c].result = Core_operation(tasks[c].op, KeyOf(c), tasks[c].operation)

\* an unwrapKey with a chain of two was rejected for a key whose limit is one
C5_Witness ==
  \E c \in Callers :
    /\ AtGuard(c) /\ tasks[c].guard = "rejected" /\ tasks[c].op = "unwrapKey"
    /\ Len(tasks[c].zcapInvocation.dereferencedChain) = 2
    /\ KeyOf(c).maxCapabilityChainLength = 1

SecretsOf(key) == (DOMAIN key) \ NON_SECRET_PROPERTIES

\* the object holds a secret property of the key
Releases(object, key) ==
  \E prop \in SecretsOf(key) \cap DOMAIN object : object[prop] = key[prop]

\* C7: generateKey returns exactly {keyId, keyDescription}, and no public
\* operation returns a secret property of a stored key.
C7_NoSecretReleased ==
  \A c \in Callers : (tasks[c].pc = "done" /\ tasks[c].result.ok) =>
    IF tasks[c].op = "generateKey"
    THEN /\ DOMAIN tasks[c].result.value = {"keyId", "keyDescription"}
         /\ ~Releases(tasks[c].result.value.keyDescription, tasks[c].key)
    ELSE tasks[c].op \in GatedOps \cup {"getKeyDescription"} =>
           ~Releases(tasks[c].result.value, KeyOf(c))

\* C8: a record whose insert saw a KEK configured holds the key's non-secret
\* properties and `encrypted` ({kekId, jwe}), nothing else; and no stored key
\* has both `encrypted` and a secret property.
C8_AtRest ==
  \A i \in 1..Len(ssm) :
    LET stored == ssm[i].key
        key == Without(inserted[i].key, "controller")
    IN /\ inserted[i].kekId # "" =>
            /\ DOMAIN stored = ((DOMAIN key) \cap NON_SECRET_PROPERTIES) \cup {"encrypted"}
            /\ Without(stored, "encrypted") = Pick(key, NON_SECRET_PROPERTIES)
            /\ DOMAIN stored["encrypted"] = {"kekId", "jwe"}
            /\ stored["encrypted"].kekId = inserted[i].kekId
       /\ "encrypted" \in DOMAIN stored => SecretsOf(stored) = {"encrypted"}

\* a key with a secret property was generated under a KEK and is stored
C8_Witness ==
  \E i \in 1..Len(ssm) :
    /\ inserted[i].kekId = "kek1"
    /\ "secret" \in DOMAIN inserted[i].key
    /\ "encrypted" \in DOMAIN ssm[i].key

\* C9: decryption looks the KEK up by the record's kekId: it succeeds while
\* that KEK is in the registry, whatever KEK is configured, and fails with
\* NotFoundError once it is not.
C9_KekLookup ==
  \A c \in Callers :
    (tasks[c].pc = "done" /\ Fetching(c) /\ tasks[c].fetched.ok
       /\ "encrypted" \in DOMAIN tasks[c].fetched.value.key) =>
      IF tasks[c].kekMissing
      THEN ~tasks[c].result.ok /\ tasks[c].result.name = "NotFoundError"
      ELSE tasks[c].op = "getKeyDescription" => tasks[c].result.ok

-----------------------------------------------------------------------------
(* Key generation and description for every key type, with public aliases *)

\* the key types of the tests' supportedKeys lists
KeysTypes == (DOMAIN OPERATIONS) \cup MULTIKEY_AGREEMENT_TYPES

Controllers == {"did:ex:alice", "did:ex:bob"}

\* '{+controller}#{<property>}', and a template with an expression that
\* does not parse
Template(prop) == <<[var |-> "controller"], [lit |-> "#"], [var |-> prop]>>
BadTemplate == <<[lit |-> "did:ex:"], [bad |-> TRUE]>>

\* what a caller may say about aliases in an invocation target
Aliases ==
  {Empty,
   [publicAlias |-> <<"did:ex:alias">>],
   [publicAliasTemplate |-> Template("publicKeyMultibase")],
   [publicAliasTemplate |-> Template("publicKeyBase58")],
   [publicAliasTemplate |-> BadTemplate],
   [publicAlias |-> <<"did:ex:alias">>, publicAliasTemplate |-> Template("publicKeyMultibase")]}

KeysTargets == {Merge([type |-> t], alias) : t \in KeysTypes, alias \in Aliases}

InitKeys == InitCommon /\ config = Kek("kek1", 1) /\ KEKS = _loadKeks(Kek("kek1", 1)).value

NextKeys ==
  \/ \E target \in KeysTargets, controller \in Controllers :
       nops < MaxGenerate /\ GenerateKey("c1", OpsId, controller, target, "m1")
  \/ InsertOne("c1")
  \/ \E controller \in Controllers :
       Get("c1", "getKeyDescription", OpsId, controller, Empty, Null)
  \/ Get("c1", "sign", OpsId, "did:ex:alice", Operation("sign"), Null)
  \/ \E p \in 1..Len(promises) : FindOne(p)
  \/ Resume("c1")

SpecKeys == InitKeys /\ [][NextKeys]_vars

-----------------------------------------------------------------------------
(* Round trips: an operation of one caller on the result of another's *)

RoundController == "did:ex:controller"

\* the keys generated before the callers start: an AES key-wrapping key, an
\* HMAC key and an asymmetric signature key of the type chosen
RoundSeeds(type) ==
  <<[id |-> KeyId("ks1", "A"), type |-> "AesKeyWrappingKey2019", m |-> "m1"],
    [id |-> KeyId("ks1", "B"), type |-> "Sha256HmacKey2019", m |-> "m2"],
    [id |-> KeyId("ks1", "C"), type |-> type, m |-> "m3"]>>

\* the asymmetric signature types the third key is chosen from
RoundTypes == {"Ed25519VerificationKey2020", "urn:webkms:multikey:P-256"}

\* what generateKey makes of a seed, and the store and the log of inserts
\* after the generateKey calls of the first n seeds
RoundMade(seed) ==
  Core_generateKey(seed.id, RoundController,
                   [invocationTarget |-> [type |-> seed.type]], seed.m).value

RECURSIVE RoundStore(_, _, _, _)
RoundStore(seeds, n, cfg, keks) ==
  IF n = 0 THEN <<>>
  ELSE KeyStorage_insertOne(
         RoundStore(seeds, n - 1, cfg, keks),
         generateKey_insert(RoundMade(seeds[n]), cfg, keks, 0).value).value

RoundInserted(seeds, cfg) ==
  [n \in 1..Len(seeds) |->
     [key |-> RoundMade(seeds[n]).key, kekId |-> ConfigKekId(cfg),
      controller |-> RoundController,
      keyDescription |-> RoundMade(seeds[n]).keyDescription]]

\* what callers ask to be wrapped and signed
RoundSecrets == {"cek1", "cek2"}
RoundData == {"data1", "data2"}

\* a base64url text in which a byte of the content was changed
Flip(text) == B64uEncode(<<"flipped", B64uDecode(text)>>)

\* the caller's operation has ended with a result
Finished(c, op) == tasks[c].op = op /\ tasks[c].pc = "done" /\ tasks[c].result.ok

InitRound ==
  /\ config = Kek("kek1", 1)
  /\ KEKS = _loadKeks(Kek("kek1", 1)).value
  /\ \E type \in RoundTypes :
       /\ ssm = RoundStore(RoundSeeds(type), 3, config, KEKS)
       /\ inserted = RoundInserted(RoundSeeds(type), config)
  /\ cache = <<>>
  /\ promises = <<>>
  /\ tasks = [c \in Callers |-> IdleTask]
  /\ clock = 0
  /\ nops = 0
  /\ cipherIn = Empty
  /\ cipherOut = [op |-> "none", result |-> Ok(Empty), kekId |-> "", keks |-> Empty,
                  before |-> [op |-> "none", input |-> Empty, output |-> Ok(Empty)]]

NextRound ==
  \/ \E c \in Callers, unwrapped \in RoundSecrets :
       Get(c, "wrapKey", KeyId("ks1", "A"), RoundController,
           [unwrappedKey |-> B64uEncode(unwrapped)], Null)
  \/ \E c, d \in Callers :
       /\ c # d
       /\ Finished(d, "wrapKey")
       /\ Get(c, "unwrapKey", tasks[d].id, RoundController,
              [wrappedKey |-> tasks[d].result.value.wrappedKey], Null)
  \/ \E c \in Callers, id \in {KeyId("ks1", "B"), KeyId("ks1", "C")}, data \in RoundData :
       Get(c, "sign", id, RoundController, [verifyData |-> B64uEncode(data)], Null)
  \/ \E c, d \in Callers, data \in RoundData, flipped \in BOOLEAN :
       /\ c # d
       /\ Finished(d, "sign")
       /\ Get(c, "verify", tasks[d].id, RoundController,
              [verifyData |-> B64uEncode(data),
               signatureValue |-> IF flipped
                                  THEN Flip(tasks[d].result.value.signatureValue)
                                  ELSE tasks[d].result.value.signatureValue], Null)
  \/ \E p \in 1..Len(promises) : FindOne(p)
  \/ \E c \in Callers : Resume(c)

SpecRound == InitRound /\ [][NextRound]_vars

-----------------------------------------------------------------------------
(* deriveSecret of the key agreement provider, called on its own *)

\* the key agreement key types
AGREEMENT_TYPES == {"X25519KeyAgreementKey2020"} \cup MULTIKEY_AGREEMENT_TYPES

\* the key agreement keys as the provider generates them
DeriveKeys ==
  {keyAgreementKey_generateKey(OpsId, type, "did:ex:controller", "m1").value.key :
     type \in AGREEMENT_TYPES}

\* multibase and multikey headers of a peer's publicKeyMultibase
PeerMultibaseHeaders == {"z", "u", "m"}
PeerMultikeyHeaders == (DOMAIN SUPPORTED_MULTIKEY_TYPES) \cup {"ed01"}

\* the peer public keys: with a key agreement type or another type given,
\* and Multikey ones with each pair of headers or no publicKeyMultibase
Peers ==
  {[type |-> type, publicKeyMultibase |-> <<"z", "ec01", "peer">>] :
     type \in AGREEMENT_TYPES}
  \cup {[type |-> "NonMatchingType"], [type |-> "Multikey"]}
  \cup {[type |-> "Multikey", publicKeyMultibase |-> <<mbHeader, header, "peer">>] :
          mbHeader \in PeerMultibaseHeaders, header \in PeerMultikeyHeaders}

\* deriveSecret({key, operation}) of the provider is called
DeriveSecret(c, key, publicKey) ==
  /\ MayStart(c)
  /\ LET operation == [publicKey |-> publicKey]
         derived == keyAgreementKey_derive(key, operation)
     IN tasks' = [tasks EXCEPT ![c] =
          [Started(c, "deriveSecret", key.id) EXCEPT
             !.pc = "done", !.key = key, !.operation = operation,
             !.result = derived.result, !.work = derived.calls]]
  /\ nops' = nops + 1
  /\ UNCHANGED <<ssm, inserted, cache, promises, clock, config, KEKS, cipherIn, cipherOut>>

InitDerive == InitCommon /\ config = Null /\ KEKS = _loadKeks(Null).value

NextDerive == \E key \in DeriveKeys, publicKey \in Peers : DeriveSecret("c1", key, publicKey)

SpecDerive == InitDerive /\ [][NextDerive]_vars

-----------------------------------------------------------------------------
(* Key counts and failed inserts, over two keystores *)

\* key ids of two keystores; the third is another id of the first one's
\* keystore and local id, with another multicodec header
CountIds ==
  {KeyId("ks1", "A"), <<"ks1", <<"z", "0020", "A">>>>, KeyId("ks1", "B"), KeyId("ks2", "A")}

CountKeystores == {<<"ks1">>, <<"ks2">>, <<"ks3">>}

\* a target that generateKey accepts and one that it rejects
CountTargets ==
  {[type |-> "Sha256HmacKey2019"],
   [type |-> "Sha256HmacKey2019", publicAlias |-> <<"did:ex:alias">>]}

\* the keys generated before the callers start
CountSeeds ==
  {<<>>,
   <<[id |-> KeyId("ks1", "C"), type |-> "Sha256HmacKey2019", m |-> "m3"]>>,
   <<[id |-> KeyId("ks1", "C"), type |-> "Sha256HmacKey2019", m |-> "m3"],
     [id |-> KeyId("ks2", "C"), type |-> "AesKeyWrappingKey2019", m |-> "m3"]>>}

InitCount ==
  /\ config = Null
  /\ KEKS = _loadKeks(Null).value
  /\ \E seeds \in CountSeeds :
       /\ ssm = RoundStore(seeds, Len(seeds), config, KEKS)
       /\ inserted = RoundInserted(seeds, config)
  /\ cache = <<>>
  /\ promises = <<>>
  /\ tasks = [c \in Callers |-> IdleTask]
  /\ clock = 0
  /\ nops = 0
  /\ cipherIn = Empty
  /\ cipherOut = [op |-> "none", result |-> Ok(Empty), kekId |-> "", keks |-> Empty,
                  before |-> [op |-> "none", input |-> Empty, output |-> Ok(Empty)]]

NextCount ==
  \/ \E c \in Callers, id \in CountIds, target \in CountTargets :
       GenerateKey(c, id, "did:ex:controller", target, "m1")
  \/ \E c \in Callers : InsertOne(c)
  \/ \E c \in Callers : InsertOneFails(c)
  \/ \E c \in Callers, keystoreId \in CountKeystores : GetKeyCount(c, keystoreId)

SpecCount == InitCount /\ [][NextCount]_vars

-----------------------------------------------------------------------------
(* Cached reads while another process changes the stored records *)

StaleIds == {KeyId("ks1", "A"), KeyId("ks1", "B")}

\* the keys generated before the callers start
StaleSeeds ==
  <<[id |-> KeyId("ks1", "A"), type |-> "Sha256HmacKey2019", m |-> "m1"],
    [id |-> KeyId("ks1", "B"), type |-> "Sha256HmacKey2019", m |-> "m2"]>>

InitStale ==
  /\ config = Null
  /\ KEKS = _loadKeks(Null).value
  /\ ssm = RoundStore(StaleSeeds, Len(StaleSeeds), config, KEKS)
  /\ inserted = RoundInserted(StaleSeeds, config)
  /\ cache = <<>>
  /\ promises = <<>>
  /\ tasks = [c \in Callers |-> IdleTask]
  /\ clock = 0
  /\ nops = 0
  /\ cipherIn = Empty
  /\ cipherOut = [op |-> "none", result |-> Ok(Empty), kekId |-> "", keks |-> Empty,
                  before |-> [op |-> "none", input |-> Empty, output |-> Ok(Empty)]]

NextStale ==
  \/ \E c \in Callers, id \in StaleIds :
       Get(c, "getKeyDescription", id, "did:ex:controller", Empty, Null)
  \/ \E p \in 1..Len(promises) : FindOne(p)
  \/ \E c \in Callers : Resume(c)
  \/ \E i \in 1..Len(ssm) : AdminChange(i)
  \/ Tick

SpecStale == InitStale /\ [][NextStale]_vars

-----------------------------------------------------------------------------
(* The record cipher on its own, under every KEK configuration *)

\* the keys that Core.generateKey makes
CipherKeys ==
  {Core_generateKey(OpsId, "did:ex:controller", [invocationTarget |-> target], "m1").value.key :
     target \in OpsTargets}

\* the cipher has returned a key
Returned == cipherOut.result.ok /\ cipherOut.op # "none"

InitCipher == InitCommon /\ config = Kek("kek1", 1) /\ KEKS = _loadKeks(Kek("kek1", 1)).value

NextCipher ==
  \/ \E key \in CipherKeys : Encrypt(key)
  \/ \E key \in CipherKeys : Decrypt(key)
  \/ Returned /\ Encrypt(cipherOut.result.value)
  \/ Returned /\ Decrypt(cipherOut.result.value)
  \/ \E kek \in Keks : SetKek(kek)
  \/ LoadKeks

SpecCipher == InitCipher /\ [][NextCipher]_vars

\* C10: encryptKeySecrets on a key that has an `encrypted` property fails
\* and returns no key, with and without a KEK configured.
C10_NoDoubleWrap ==
  (cipherOut.op = "encryptKeySecrets" /\ "encrypted" \in DOMAIN cipherIn) =>
    /\ ~cipherOut.result.ok
    /\ cipherOut.result.name = "Error"
    /\ cipherOut.result.value = Empty

\* an encrypted key was handed to encryptKeySecrets while no KEK is configured
C10_Witness ==
  /\ cipherOut.op = "encryptKeySecrets"
  /\ "encrypted" \in DOMAIN cipherIn
  /\ config = Null
  /\ ~cipherOut.result.ok

\* the registries a call can meet
Registries == {_loadKeks(kek).value : kek \in Keks}

\* C11: with no KEK configured, encryptKeySecrets returns the key it was
\* given; decryptKeySecrets returns a key that has no `encrypted` property as
\* it was given, whatever the registry holds, so that decrypting what
\* decryptKeySecrets returned changes nothing.
C11_Passthrough ==
  /\ (cipherOut.op = "encryptKeySecrets" /\ cipherOut.kekId = ""
        /\ "encrypted" \notin DOMAIN cipherIn) =>
       cipherOut.result = Ok(cipherIn)
  /\ (cipherOut.op = "decryptKeySecrets" /\ "encrypted" \notin DOMAIN cipherIn) =>
       cipherOut.result = Ok(cipherIn)
  /\ (cipherOut.op = "decryptKeySecrets" /\ cipherOut.result.ok) =>
       \A keks \in Registries :
         decryptKeySecrets(keks, cipherOut.result.value) = cipherOut.result

\* a key with a secret, as decryptKeySecrets had returned it, was decrypted
\* a second time while the registry was empty
C11_Witness ==
  /\ cipherOut.op = "decryptKeySecrets" /\ cipherOut.keks = Empty
  /\ cipherOut.before.op = "decryptKeySecrets"
  /\ cipherOut.before.output = Ok(cipherIn)
  /\ "secret" \in DOMAIN cipherIn
  /\ cipherOut.result = Ok(cipherIn)

\* the call before was an encryptKeySecrets of a key without `encrypted`
\* under a configured KEK, and this call decrypts what it returned while
\* that KEK is registered
RoundTrip ==
  /\ cipherOut.op = "decryptKeySecrets"
  /\ cipherOut.before.op = "encryptKeySecrets"
  /\ cipherOut.before.output.ok
  /\ cipherIn = cipherOut.before.output.value
  /\ "encrypted" \notin DOMAIN cipherOut.before.input
  /\ "encrypted" \in DOMAIN cipherIn
  /\ cipherIn["encrypted"].kekId \in DOMAIN cipherOut.keks

\* C12: encryptKeySecrets under a KEK puts every property of the key either
\* among the plaintext properties or into the encrypted secrets, none in
\* both and none dropped; and decryptKeySecrets of what it returned, while
\* the KEK is registered, is the key that was encrypted, without `encrypted`.
C12_RoundTrip ==
  /\ (cipherOut.op = "encryptKeySecrets" /\ cipherOut.result.ok
        /\ "encrypted" \in DOMAIN cipherOut.result.value) =>
       LET plain == Without(cipherOut.result.value, "encrypted")
           bundle == JsonParse(cipherOut.result.value["encrypted"].jwe.sealed)
       IN /\ (DOMAIN plain) \cup (DOMAIN bundle) = DOMAIN cipherIn
          /\ (DOMAIN plain) \cap (DOMAIN bundle) = {}
          /\ \A prop \in DOMAIN plain : plain[prop] = cipherIn[prop]
          /\ \A prop \in DOMAIN bundle : bundle[prop] = cipherIn[prop]
  /\ RoundTrip =>
       /\ cipherOut.result = Ok(cipherOut.before.input)
       /\ "encrypted" \notin DOMAIN cipherOut.result.value

\* a key with a capability chain limit and a secret went through the round
\* trip while another KEK than the record's was configured
C12_Witness ==
  /\ RoundTrip
  /\ cipherOut.kekId # cipherIn["encrypted"].kekId
  /\ {"maxCapabilityChainLength", "secret"} \subseteq DOMAIN cipherOut.before.input
  /\ cipherOut.result.ok


\* the caller's generateKey call has ended, and the target it asked for
Generated(c) == tasks[c].op = "generateKey" /\ tasks[c].pc = "done"
TargetOf(c) == tasks[c].operation.invocationTarget

\* the alias input of an invocation target that generateKey must refuse
BothAliases(target) == {"publicAlias", "publicAliasTemplate"} \subseteq DOMAIN target
AliasForSymmetric(target) ==
  /\ target.type \in DOMAIN SYMMETRIC_KEY_TYPES
  /\ {"publicAlias", "publicAliasTemplate"} \cap DOMAIN target # {}
UnparsableTemplate(target) ==
  /\ "publicAliasTemplate" \in DOMAIN target
  /\ \E i \in 1..Len(target.publicAliasTemplate) :
       "bad" \in DOMAIN target.publicAliasTemplate[i]
InvalidAlias(target) ==
  BothAliases(target) \/ AliasForSymmetric(target) \/ UnparsableTemplate(target)

\* C13: a generateKey whose target gives both publicAlias and
\* publicAliasTemplate, or either of them for a symmetric key type, or a
\* publicAliasTemplate that does not parse, fails without a write: it never
\* comes to the insert, returns nothing, and an id that had no record still
\* has none.
C13_AliasRejected ==
  \A c \in Callers :
    (tasks[c].op = "generateKey" /\ InvalidAlias(TargetOf(c))) =>
      /\ tasks[c].pc = "done"
      /\ ~tasks[c].result.ok
      /\ tasks[c].result.value = Empty
      /\ tasks[c].record = Empty
      /\ ~tasks[c].hadRecord => RecordsOf(tasks[c].id) = {}

\* a generateKey for an asymmetric key type with a template that does not
\* parse has failed on an id without a record
C13_Witness ==
  \E c \in Callers :
    /\ Generated(c) /\ ~tasks[c].hadRecord
    /\ UnparsableTemplate(TargetOf(c)) /\ ~BothAliases(TargetOf(c))
    /\ TargetOf(c).type = "urn:webkms:multikey:P-256"
    /\ ~tasks[c].result.ok


\* the caller's getKeyDescription has returned a description
Described(c) ==
  tasks[c].op = "getKeyDescription" /\ tasks[c].pc = "done" /\ tasks[c].result.ok

\* what the store remembers of the generateKey that made the caller's key
MadeAs(c) == inserted[CHOOSE i \in RecordsOf(tasks[c].id) : TRUE]

\* the properties of a key description that name the key and its public key
DESCRIPTION_PROPERTIES ==
  {"@context", "id", "type", "controller", "publicKeyMultibase", "publicKeyBase58"}

\* C14: getKeyDescription with the controller given to generateKey returns
\* the @context, id, type, controller and public key property that
\* generateKey returned in keyDescription; the id is the key id when no alias
\* was given, the publicAlias when one was given, and the expansion of the
\* publicAliasTemplate over the description otherwise.
C14_Description ==
  \A c \in Callers :
    (Described(c) /\ tasks[c].controller = MadeAs(c).controller) =>
      LET description == tasks[c].result.value
          made == MadeAs(c).keyDescription
          key == MadeAs(c).key
      IN /\ Pick(description, DESCRIPTION_PROPERTIES) = Pick(made, DESCRIPTION_PROPERTIES)
         /\ description.id =
              IF "publicAlias" \in DOMAIN key THEN key.publicAlias
              ELSE IF "publicAliasTemplate" \in DOMAIN key
              THEN expand(key.publicAliasTemplate, made)
              ELSE tasks[c].id


\* the secrets sealed in a stored key, none when it is not encrypted
SealedIn(stored) ==
  IF "encrypted" \in DOMAIN stored
  THEN JsonParse(stored["encrypted"].jwe.sealed) ELSE Empty

\* C15: no stored record holds a controller, neither in the record, nor in
\* its key, nor among the key's encrypted secrets; and the controller of a
\* description that getKeyDescription returns is the controller given to
\* that call, whoever generated the key.
C15_Controller ==
  /\ \A i \in 1..Len(ssm) :
       /\ "controller" \notin DOMAIN ssm[i]
       /\ "controller" \notin DOMAIN ssm[i].key
       /\ "controller" \notin DOMAIN SealedIn(ssm[i].key)
  /\ \A c \in Callers : Described(c) =>
       /\ "controller" \in DOMAIN tasks[c].result.value
       /\ tasks[c].result.value.controller = tasks[c].controller

\* a key generated for one controller was described for another
C15_Witness ==
  \E c \in Callers :
    /\ Described(c)
    /\ MadeAs(c).controller = "did:ex:alice"
    /\ tasks[c].result.value.controller = "did:ex:bob"
    /\ MadeAs(c).keyDescription.controller = "did:ex:alice"


\* the type starts with 'urn:webkms:multikey:'
IsMultikey(type) == type \in MULTIKEY_SIGNATURE_TYPES \cup MULTIKEY_AGREEMENT_TYPES

\* the type a description reports for a key type
DescribedType(type) == IF IsMultikey(type) THEN "Multikey" ELSE type

\* the caller's sign has passed the guard and ended
Signed(c) == tasks[c].op = "sign" /\ tasks[c].pc = "done" /\ tasks[c].guard = "passed"

\* C16: the description of a key reports 'Multikey' for a type that starts
\* with 'urn:webkms:multikey:' and the key's type otherwise, from generateKey
\* and from getKeyDescription alike; the stored key keeps the type given at
\* generation; and a later sign is dispatched on that stored type.
C16_TypeNormalized ==
  /\ \A c \in Callers : (Generated(c) /\ tasks[c].result.ok) =>
       /\ tasks[c].result.value.keyDescription.type = DescribedType(TargetOf(c).type)
       /\ \A i \in RecordsOf(tasks[c].id) :
            ~tasks[c].hadRecord => ssm[i].key.type = TargetOf(c).type
  /\ \A i \in 1..Len(ssm) : ssm[i].key.type = inserted[i].key.type
  /\ \A c \in Callers : Described(c) =>
       tasks[c].result.value.type = DescribedType(ssm[CHOOSE i \in RecordsOf(tasks[c].id) : TRUE].key.type)
  /\ \A c \in Callers : Signed(c) =>
       LET stored == ssm[CHOOSE i \in RecordsOf(tasks[c].id) : TRUE].key
           op == getKeyOp("sign", stored.type)
       IN tasks[c].result =
            IF op.ok THEN callOp(op.value, MadeAs(c).key, tasks[c].operation) ELSE op

\* a P-256 multikey, described as 'Multikey' by generateKey and stored under
\* its own type, has signed
C16_Witness ==
  \E c \in Callers :
    /\ Signed(c) /\ tasks[c].result.ok
    /\ MadeAs(c).keyDescription.type = "Multikey"
    /\ ssm[CHOOSE i \in RecordsOf(tasks[c].id) : TRUE].key.type = "urn:webkms:multikey:P-256"


\* C18: generateKey of any key type the tests list as supported, on an id
\* without a record and with no alias, succeeds and returns the requested
\* keyId and a keyDescription whose id is the key id and whose controller
\* is the controller given.
C18_Generates ==
  \A c \in Callers :
    (Generated(c) /\ ~tasks[c].hadRecord /\ DOMAIN TargetOf(c) = {"type"}
       /\ TargetOf(c).type \in KeysTypes) =>
      /\ tasks[c].result.ok
      /\ tasks[c].result.value.keyId = tasks[c].id
      /\ tasks[c].result.value.keyDescription.id = tasks[c].id
      /\ tasks[c].result.value.keyDescription.controller = tasks[c].controller


\* what the dispatcher answers for the caller's operation: Core.generateKey
\* asks for generateKey or generateKeyPair by the type asked for, the other
\* operations ask by their own name and the stored key's type
Resolution(c) ==
  IF tasks[c].op = "generateKey"
  THEN getKeyOp(IF TargetOf(c).type \in DOMAIN SYMMETRIC_KEY_TYPES
                THEN "generateKey" ELSE "generateKeyPair", TargetOf(c).type)
  ELSE getKeyOp(tasks[c].op, KeyOf(c).type)

\* the caller's operation has come to the dispatcher and ended
Resolved(c) ==
  /\ tasks[c].pc = "done"
  /\ IF tasks[c].op = "generateKey"
     THEN ~InvalidAlias(TargetOf(c))
     ELSE AtGuard(c) /\ tasks[c].guard = "passed"

\* the dispatcher refused the caller's operation
Refused(c) == Resolved(c) /\ ~Resolution(c).ok

\* sign or deriveSecret was asked of an AES key-wrapping key
OffTypeOfAes(c) ==
  /\ Resolved(c) /\ tasks[c].op \in {"sign", "deriveSecret"}
  /\ KeyOf(c).type = "AesKeyWrappingKey2019"

\* the operation ended with no result and no provider function ran for it
FailedClosed(c) ==
  /\ ~tasks[c].result.ok
  /\ tasks[c].result.value = Empty
  /\ tasks[c].result.name = "Error"
  /\ \A i \in 1..Len(tasks[c].work) : tasks[c].work[i] # tasks[c].op
  /\ tasks[c].op = "generateKey" => (tasks[c].key = Empty /\ tasks[c].record = Empty)

\* C17 as stated: an operation the dispatcher refuses, and likewise sign and
\* deriveSecret on an AES key-wrapping key, ends with an error and no
\* result, without any provider function having run.
C17_FailsClosed ==
  \A c \in Callers : (Refused(c) \/ OffTypeOfAes(c)) => FailedClosed(c)

\* C17, amended: an operation the dispatcher refuses (unknown key type, or
\* an operation name the type's provider does not export) ends with the
\* dispatcher's error and no result, no provider function has run for it and
\* the step that ends it changes no record, cache entry or KEK; sign, wrapKey
\* and unwrapKey are refused for a key agreement type; sign and deriveSecret
\* on an AES key-wrapping key end with an error and no result, sign because
\* the symmetric provider's sign rejects the key type.
C17_State ==
  /\ \A c \in Callers : Refused(c) =>
       /\ FailedClosed(c)
       /\ tasks[c].result = Resolution(c)
       /\ tasks[c].result.message[1] \in {"Unknown key type \"", "Unsupported operation \""}
  /\ \A c \in Callers : OffTypeOfAes(c) =>
       /\ ~tasks[c].result.ok
       /\ tasks[c].result.value = Empty
       /\ tasks[c].result.name = "Error"
  /\ \A name \in {"sign", "wrapKey", "unwrapKey"} :
       ~getKeyOp(name, "X25519KeyAgreementKey2020").ok
C17_Step ==
  \A c \in Callers :
    (tasks[c].pc # "done" /\ Refused(c)') =>
      /\ ssm' = ssm /\ inserted' = inserted /\ cache' = cache
      /\ config' = config /\ KEKS' = KEKS
C17_Dispatch == [](C17_State) /\ [][C17_Step]_vars

\* deriveSecret on a stored AES key-wrapping key was refused as unsupported
C17_Witness ==
  \E c \in Callers :
    /\ Refused(c) /\ tasks[c].op = "deriveSecret"
    /\ KeyOf(c).type = "AesKeyWrappingKey2019"
    /\ tasks[c].result.message[1] = "Unsupported operation \""

\* the operation of c was made of the result that d still holds
Chained(c, d, op, of) ==
  /\ c # d
  /\ tasks[c].op = op /\ tasks[c].pc = "done"
  /\ Finished(d, of)
  /\ tasks[c].id = tasks[d].id
  /\ tasks[c].opno > tasks[d].opno

SameAsSigned(c, d) ==
  /\ tasks[c].operation.verifyData = tasks[d].operation.verifyData
  /\ tasks[c].operation.signatureValue = tasks[d].result.value.signatureValue

\* C20 as stated: for a key of any signature type, verify of the data and
\* the signature of a sign with the same key returns verified = true, and
\* verify of other data or of a changed signature returns verified = false.
C20_AllTypes ==
  \A c, d \in Callers : Chained(c, d, "verify", "sign") =>
    /\ tasks[c].result.ok
    /\ tasks[c].result.value = [verified |-> SameAsSigned(c, d)]

\* C20, amended: for a Sha256HmacKey2019 key, verify of the data and the
\* signature of a sign with the same key returns verified = true, and verify
\* of other data or of a changed signature returns verified = false; for a
\* key of an asymmetric signature type sign succeeds and verify fails as an
\* unsupported operation, with no result.
C20_SignVerify ==
  \A c, d \in Callers : Chained(c, d, "verify", "sign") =>
    IF KeyOf(c).type = "Sha256HmacKey2019"
    THEN /\ tasks[c].result.ok
         /\ tasks[c].result.value = [verified |-> SameAsSigned(c, d)]
    ELSE /\ KeyOf(c).type \in RoundTypes
         /\ tasks[c].result =
              Err("Error", <<"Unsupported operation \"", "verify",
                             "\" for key type \"", KeyOf(c).type, "\".">>, "")

\* a verify of signed data under an HMAC key answered true after the
\* caller had a verify of other data answered
C20_Witness ==
  \E c, d \in Callers :
    /\ Chained(c, d, "verify", "sign")
    /\ KeyOf(c).type = "Sha256HmacKey2019"
    /\ SameAsSigned(c, d)
    /\ tasks[c].result.ok /\ tasks[c].result.value.verified
    /\ tasks[c].opno > tasks[d].opno + 1

\* deriveSecret of the provider has been called for the caller
Derived(c) == tasks[c].op = "deriveSecret" /\ tasks[c].pc = "done"

\* the peer public key of the caller's deriveSecret
PeerOf(c) == tasks[c].operation.publicKey

\* the peer key is a Multikey whose headers name no key agreement type
UnrecognizedPeer(publicKey) ==
  /\ publicKey.type = "Multikey"
  /\ \/ "publicKeyMultibase" \notin DOMAIN publicKey
     \/ publicKey.publicKeyMultibase[1] \notin {"z", "u"}
     \/ publicKey.publicKeyMultibase[2] \notin {"ec01", "8024", "8124", "8224"}

\* the type of a peer key that is recognized
PeerType(publicKey) ==
  IF publicKey.type = "Multikey"
  THEN SUPPORTED_MULTIKEY_TYPES[publicKey.publicKeyMultibase[2]]
  ELSE publicKey.type

\* C21: deriveSecret fails with NotSupportedError for a Multikey peer key
\* with an unrecognized multibase or multikey header, and fails naming the
\* two types when the peer key's type (for a Multikey peer key the type of
\* its multikey header) is not the type of the key agreement key; in both
\* cases no key pair has been imported and no secret derived. Otherwise it
\* imports the key pair and derives the secret.
C21_TypeCheck ==
  \A c \in Callers : Derived(c) =>
    IF UnrecognizedPeer(PeerOf(c))
    THEN /\ ~tasks[c].result.ok
         /\ tasks[c].result.name = "NotSupportedError"
         /\ tasks[c].result.value = Empty
         /\ tasks[c].work = <<>>
    ELSE IF PeerType(PeerOf(c)) # tasks[c].key.type
    THEN /\ ~tasks[c].result.ok
         /\ tasks[c].result.name = "Error"
         /\ tasks[c].result.message =
              <<"The given public key type \"", PeerType(PeerOf(c)),
                "\" does not match the key agreement key's type \"",
                tasks[c].key.type, "\".">>
         /\ tasks[c].result.value = Empty
         /\ tasks[c].work = <<>>
    ELSE /\ tasks[c].result.ok
         /\ DOMAIN tasks[c].result.value = {"secret"}
         /\ Len(tasks[c].work) = 2

\* a Multikey peer key with the X25519 header was refused for an ECDH P-256
\* key
C21_Witness ==
  \E c \in Callers :
    /\ Derived(c)
    /\ tasks[c].key.type = "urn:webkms:multikey:ECDH-P-256"
    /\ PeerOf(c) = [type |-> "Multikey", publicKeyMultibase |-> <<"u", "ec01", "peer">>]
    /\ ~tasks[c].result.ok /\ tasks[c].work = <<>>

\* the key ids of the keystore whose generateKey has succeeded
SucceededIds(keystoreId) ==
  {inserted[i].key.id : i \in {j \in 1..Len(inserted) :
     SubSeq(inserted[j].key.id, 1, Len(inserted[j].key.id) - 1) = keystoreId}}

Wrote(c) == tasks[c].op = "generateKey" /\ tasks[c].pc = "done" /\ tasks[c].writes > 0

\* C23: a generateKey whose write failed fails with DuplicateError, caused
\* by the storage failure, exactly when that failure is a uniqueness
\* violation, and with the storage failure as it is otherwise; it has issued
\* exactly one insertOne, and the failed write has stored nothing.
C23_State ==
  \A c \in Callers : Wrote(c) =>
    /\ tasks[c].writes = 1
    /\ tasks[c].result.ok <=> tasks[c].raised.ok
    /\ ~tasks[c].raised.ok =>
         IF tasks[c].raised.name = "MongoServerError"
         THEN /\ tasks[c].result.name = "DuplicateError"
              /\ tasks[c].result.message = <<"Duplicate key identifier.">>
              /\ tasks[c].result.cause = "MongoServerError"
              /\ tasks[c].duplicate
         ELSE tasks[c].result = tasks[c].raised
C23_Step ==
  \A c \in Callers :
    (tasks[c].pc = "inserting" /\ tasks'[c].pc = "done" /\ ~tasks'[c].result.ok) =>
      ssm' = ssm /\ inserted' = inserted
C23_InsertErrors == [](C23_State) /\ [][C23_Step]_vars

\* a generateKey failed with the storage failure of its write, for an id
\* that has no record
C23_Witness ==
  \E c \in Callers :
    /\ Wrote(c) /\ ~tasks[c].result.ok
    /\ tasks[c].result.name = "MongoNetworkError"
    /\ RecordsOf(tasks[c].id) = {}

\* the caller's get has returned a record
Got(c) == tasks[c].pc = "done" /\ tasks[c].p # 0 /\ tasks[c].fetched.ok

\* the stored record of an id, as a lookup returns it
StoredOf(id) ==
  Pick(ssm[CHOOSE i \in RecordsOf(id) : TRUE], {"key", "meta"})

\* C24: a get that is answered from the cache returns a record that was
\* fetched at most one ttl before the get started, and a get that starts
\* at least one ttl after the latest change of the stored record returns
\* the record as changed, whatever cache hits there were in between.
C24_Staleness ==
  \A c \in Callers : Got(c) =>
    /\ tasks[c].at - promises[tasks[c].p].fetchedAt <= CacheTtl
    /\ StoredOf(tasks[c].id).meta.updated + CacheTtl <= tasks[c].at =>
         tasks[c].fetched.value = StoredOf(tasks[c].id)

\* a get that started one ttl after a change returned the changed record,
\* after a get that hit the cache after the change had returned the record
\* from before it
C24_Witness ==
  \E c, d \in Callers :
    /\ Got(c) /\ Got(d) /\ tasks[c].id = tasks[d].id
    /\ tasks[d].opno < tasks[c].opno
    /\ ~tasks[d].missed
    /\ StoredOf(tasks[c].id).meta.updated > 0
    /\ StoredOf(tasks[c].id).meta.updated <= tasks[d].at
    /\ tasks[d].fetched.value # StoredOf(tasks[c].id)
    /\ tasks[c].at = StoredOf(tasks[c].id).meta.updated + CacheTtl
    /\ tasks[c].fetched.value = StoredOf(tasks[c].id)

\* a generateKey writes its record in this step
Inserting ==
  \E c \in Callers :
    tasks[c].op = "generateKey" /\ tasks[c].pc = "inserting" /\ tasks'[c].pc = "done"

\* C25: no step of a public operation changes or removes a stored record
\* (its key object or its meta), and only the write of a generateKey adds
\* one: getKeyDescription, wrapKey, unwrapKey, sign, verify, deriveSecret,
\* getKeyCount and the lookups they start never write to storage.
C25_Step ==
  /\ \A i \in 1..Len(ssm) : Len(ssm') >= i /\ ssm'[i] = ssm[i]
  /\ ssm' # ssm => (Inserting /\ Len(ssm') = Len(ssm) + 1)
C25_Immutable == [][C25_Step]_vars

\* the third operation was a generateKey of another key type for the id of
\* the stored key, and it failed leaving the stored key as it was
C25_Witness ==
  \E c \in Callers :
    /\ tasks[c].op = "generateKey" /\ tasks[c].pc = "done" /\ tasks[c].duplicate
    /\ tasks[c].opno = 3
    /\ Len(ssm) = 1
    /\ ssm[1].key.type # tasks[c].key.type

-----------------------------------------------------------------------------
(* Loading the KEK configuration: well-formed and malformed configurations *)

\* _loadKeks() is called by a caller that sees whether it throws (the
\* bedrock.init handler, a test); `keks` is the registry the call leaves
Reload ==
  /\ KEKS' = _loadKeks(config).value
  /\ cipherIn' = config
  /\ cipherOut' = [op |-> "_loadKeks",
                   result |-> [_loadKeks(config) EXCEPT !.value = Empty],
                   kekId |-> ConfigKekId(config),
                   keks |-> _loadKeks(config).value,
                   before |-> [op |-> cipherOut.op, input |-> cipherIn,
                               output |-> cipherOut.result]]
  /\ UNCHANGED <<ssm, inserted, cache, promises, tasks, clock, config, nops>>

\* KEK secrets of a wrong size, under the aes-256 multikey header
WrongSizeSecrets ==
  {Multibase("u", KEK_HEADER),
   Multibase("u", KEK_HEADER \o SubSeq(KekBytes(1), 1, KEK_SIZE - 1)),
   Multibase("u", KEK_HEADER \o KekBytes(1) \o <<1>>)}

\* KEK secrets under another multikey header, or too short to have one
OtherTypeSecrets ==
  {Multibase("u", <<128, 36>> \o KekBytes(1)),
   Multibase("u", <<162, 2>> \o KekBytes(1)),
   Multibase("u", <<162>>),
   Multibase("u", <<>>)}

\* KEK secrets in another multibase encoding
OtherBaseSecrets ==
  {Multibase("z", KEK_HEADER \o KekBytes(1)),
   Multibase("m", KEK_HEADER \o KekBytes(1))}

\* malformed KEK configurations
BadKeks ==
  {[secretKeyMultibase |-> KekMultibase(1)],
   [id |-> "", secretKeyMultibase |-> KekMultibase(1)],
   [id |-> "7", typeofId |-> "number", secretKeyMultibase |-> KekMultibase(1)],
   [id |-> "kek1"]}
  \cup {[id |-> "kek1", secretKeyMultibase |-> secret] :
          secret \in WrongSizeSecrets \cup OtherTypeSecrets \cup OtherBaseSecrets}

InitLoad == InitCommon /\ config = Null /\ KEKS = Empty

NextLoad ==
  \/ \E kek \in Keks \cup BadKeks : SetKek(kek)
  \/ Reload
  \/ \E key \in CipherKeys : Encrypt(key)
  \/ Returned /\ "encrypted" \in DOMAIN cipherOut.result.value
       /\ Decrypt(cipherOut.result.value)

SpecLoad == InitLoad /\ [][NextLoad]_vars

\* _loadKeks was the last call, with this configuration
Loaded(cfg) == cipherOut.op = "_loadKeks" /\ cipherIn = cfg

\* the last call threw this error and registered nothing
Rejected(name) ==
  /\ ~cipherOut.result.ok
  /\ cipherOut.result.name = name
  /\ cipherOut.keks = Empty
  /\ KEKS = Empty

\* the configuration names a secret whose decoded size is not 2 + KEK_SIZE
\* under the base64url header and the aes-256 multikey header
WrongSize(cfg) ==
  /\ "secretKeyMultibase" \in DOMAIN cfg
  /\ cfg.secretKeyMultibase.header = "u"
  /\ Len(cfg.secretKeyMultibase.bytes) # 2 + KEK_SIZE
  /\ Len(cfg.secretKeyMultibase.bytes) >= 2
  /\ SubSeq(cfg.secretKeyMultibase.bytes, 1, 2) = KEK_HEADER

\* the configuration names a secret under the base64url header whose first
\* two bytes are not the aes-256 multikey header
OtherType(cfg) ==
  /\ "secretKeyMultibase" \in DOMAIN cfg
  /\ cfg.secretKeyMultibase.header = "u"
  /\ \/ Len(cfg.secretKeyMultibase.bytes) < 2
     \/ SubSeq(cfg.secretKeyMultibase.bytes, 1, 2) # KEK_HEADER

\* C26: loading a KEK configuration whose id is missing or not a string
\* fails with DataError, one whose secret does not start with the base64url
\* header "u" or is not under the aes-256 multikey header fails with
\* NotSupportedError, and one whose decoded size is not 2 + 32 bytes fails
\* with DataError and the fixed message, which has nothing of the secret in
\* it; each failure leaves the registry empty, and encryptKeySecrets with an
\* empty registry never returns an encrypted key.
C26_KekValidation ==
  /\ \A cfg \in BadKeks : Loaded(cfg) =>
       /\ TypeofId(cfg) # "string" => Rejected("DataError")
       /\ ("secretKeyMultibase" \notin DOMAIN cfg \/ cfg.secretKeyMultibase.header # "u") =>
            ~cipherOut.result.ok /\ KEKS = Empty
       /\ (TypeofId(cfg) = "string" /\ cfg.id # "") =>
            /\ ("secretKeyMultibase" \notin DOMAIN cfg
                  \/ cfg.secretKeyMultibase.header # "u") => Rejected("NotSupportedError")
            /\ OtherType(cfg) => Rejected("NotSupportedError")
            /\ WrongSize(cfg) =>
                 /\ Rejected("DataError")
                 /\ cipherOut.result.message =
                      <<"Incorrect multikey size or invalid multikey header.">>
  /\ (cipherOut.op = "encryptKeySecrets" /\ cipherOut.keks = Empty) =>
       ~(cipherOut.result.ok /\ "encrypted" \in DOMAIN cipherOut.result.value)

\* a KEK secret one byte short was loaded after a well-formed KEK, and
\* rejected
C26_Witness ==
  /\ \E cfg \in BadKeks :
       /\ Loaded(cfg)
       /\ WrongSize(cfg)
       /\ Len(cfg.secretKeyMultibase.bytes) = 1 + KEK_SIZE
  /\ cipherOut.before.op = "_loadKeks"
  /\ cipherOut.before.output.ok
  /\ cipherOut.before.input \in Keks \ {Null}
  /\ Rejected("DataError")

\* the registry that holds the KEK of a well-formed configuration alone
RegistryOf(cfg) == [i \in {cfg.id} |-> KekBytes(cfg.secretKeyMultibase.bytes[3])]

\* C29: when _loadKeks returns or throws, the registry holds exactly the KEK
\* of the configuration it was given if that is well-formed, and nothing
\* otherwise (no KEK configured, or the KEK was rejected); it returns for a
\* well-formed or absent KEK and throws otherwise; and every registry an
\* encryptKeySecrets or decryptKeySecrets call sees is empty or the registry
\* of one well-formed configuration.
C29_Registry ==
  /\ cipherOut.op = "_loadKeks" =>
       /\ cipherIn \in Keks \ {Null} =>
            cipherOut.result.ok /\ KEKS = RegistryOf(cipherIn)
       /\ cipherIn = Null => cipherOut.result.ok /\ KEKS = Empty
       /\ cipherIn \in BadKeks => ~cipherOut.result.ok /\ KEKS = Empty
       /\ cipherOut.keks = KEKS
  /\ KEKS \in {Empty} \cup {RegistryOf(cfg) : cfg \in Keks \ {Null}}
  /\ cipherOut.keks \in {Empty} \cup {RegistryOf(cfg) : cfg \in Keks \ {Null}}

\* a reload with a rejected configuration that names the id of the KEK the
\* reload before it had registered
C29_Witness ==
  /\ cipherOut.op = "_loadKeks"
  /\ cipherIn \in BadKeks
  /\ cipherOut.before.op = "_loadKeks"
  /\ cipherOut.before.input \in Keks \ {Null}
  /\ ConfigKekId(cipherIn) = cipherOut.before.input.id
  /\ KEKS = Empty

-----------------------------------------------------------------------------
(* Failing lookups and failing operations next to reads of other keys *)

\* ks1/zA is never stored; ks1/zB and ks1/zC are HMAC keys, which cannot wrap
IsolateIds == {KeyId("ks1", "A"), KeyId("ks1", "B"), KeyId("ks1", "C")}

IsolateSeeds ==
  <<[id |-> KeyId("ks1", "B"), type |-> "Sha256HmacKey2019", m |-> "m2"],
    [id |-> KeyId("ks1", "C"), type |-> "Sha256HmacKey2019", m |-> "m3"]>>

InitIsolate ==
  /\ config = Null
  /\ KEKS = _loadKeks(Null).value
  /\ ssm = RoundStore(IsolateSeeds, Len(IsolateSeeds), config, KEKS)
  /\ inserted = RoundInserted(IsolateSeeds, config)
  /\ cache = <<>>
  /\ promises = <<>>
  /\ tasks = [c \in Callers |-> IdleTask]
  /\ clock = 0
  /\ nops = 0
  /\ cipherIn = Empty
  /\ cipherOut = [op |-> "none", result |-> Ok(Empty), kekId |-> "", keks |-> Empty,
                  before |-> [op |-> "none", input |-> Empty, output |-> Ok(Empty)]]

NextIsolate ==
  \/ \E c \in Callers, id \in IsolateIds :
       Get(c, "getKeyDescription", id, RoundController, Empty, Null)
  \/ \E c \in Callers, id \in IsolateIds :
       Get(c, "wrapKey", id, RoundController, [unwrappedKey |-> B64uEncode("cek1")], Null)
  \/ \E p \in 1..Len(promises) : FindOne(p)
  \/ \E c \in Callers : Resume(c)
  \/ Tick

SpecIsolate == InitIsolate /\ [][NextIsolate]_vars

\* the cache entries and the lookups of an id
EntriesOf(c, id) == {c[i] : i \in {j \in 1..Len(c) : c[j].id = id}}
LookupsOf(ps, id) == {<<p, ps[p]>> : p \in {q \in 1..Len(ps) : ps[q].id = id}}

\* in this step a lookup of id fails, or an operation on id returns a failure
FailureOf(id) ==
  \/ \E c \in Callers :
       /\ tasks[c].id = id /\ tasks[c].pc = "awaiting"
       /\ tasks'[c].pc = "done" /\ ~tasks'[c].result.ok
  \/ \E p \in 1..Len(promises) :
       /\ promises[p].id = id /\ promises[p].state = "pending"
       /\ promises'[p].state = "rejected"

\* C27: a step in which a lookup of key id A fails, or an operation on A
\* returns a failure, leaves the cache entry, the lookups and the callers of
\* every other key id B as they were; and every getKeyDescription of a stored
\* key returns that key's record, whatever failed for other ids meanwhile.
C27_State ==
  \A c \in Callers :
    (tasks[c].pc = "done" /\ tasks[c].op = "getKeyDescription" /\ tasks[c].hadRecord) =>
      /\ tasks[c].result.ok
      /\ tasks[c].fetched.value = StoredOf(tasks[c].id)
      /\ tasks[c].result.value.id = tasks[c].id
C27_Step ==
  \A id \in IsolateIds : FailureOf(id) =>
    \A other \in IsolateIds \ {id} :
      /\ EntriesOf(cache', other) = EntriesOf(cache, other)
      /\ LookupsOf(promises', other) = LookupsOf(promises, other)
      /\ \A d \in Callers : tasks[d].id = other => tasks'[d] = tasks[d]
C27_Isolation == [](C27_State) /\ [][C27_Step]_vars

\* a getKeyDescription returned a stored key whose lookup was pending while
\* the lookup of another id, started after it, failed
C27_Witness ==
  \E c, d \in Callers :
    /\ c # d
    /\ tasks[c].pc = "done" /\ tasks[c].op = "getKeyDescription" /\ tasks[c].result.ok
    /\ tasks[d].pc = "done" /\ ~tasks[d].result.ok
    /\ tasks[d].id # tasks[c].id
    /\ promises[tasks[d].p].state = "rejected"
    /\ tasks[c].opno < tasks[d].opno
    /\ promises[tasks[d].p].deliveredAt <= promises[tasks[c].p].deliveredAt
    /\ tasks[c].role = "creator"

\* C28: when a lookup of key id A fails, the step in which its creator
\* handles the failure removes no cache entry that holds another lookup,
\* also when the entry of the failed lookup had expired or was evicted and a
\* newer lookup of A was cached meanwhile.
C28_Step ==
  \A c \in Callers :
    (/\ tasks[c].pc = "awaiting" /\ tasks[c].role = "creator"
     /\ tasks'[c].pc = "done"
     /\ promises[tasks[c].p].state = "rejected") =>
      \A i \in 1..Len(cache) :
        cache[i].p # tasks[c].p => \E j \in 1..Len(cache') : cache'[j] = cache[i]
C28_OwnEntry == [][C28_Step]_vars

\* C30: every settled lookup that the cache holds has the record as it is
\* stored: a record stored with `encrypted` has no secret property next to
\* it in the cache, before and after any number of gets were served from the
\* entry; and every get of an encrypted record, hit or miss, ran
\* decryptKeySecrets on what the lookup returned.
C30_CacheAtRest ==
  /\ \A i \in 1..Len(cache) :
       LET promise == promises[cache[i].p]
       IN promise.state = "fulfilled" =>
            /\ \E j \in 1..Len(ssm) : promise.outcome.value = Pick(ssm[j], {"key", "meta"})
            /\ inserted[CHOOSE j \in 1..Len(ssm) :
                          promise.outcome.value = Pick(ssm[j], {"key", "meta"})].kekId # "" =>
                 /\ "encrypted" \in DOMAIN promise.outcome.value.key
                 /\ SecretsOf(promise.outcome.value.key) = {"encrypted"}
  /\ \A c \in Callers :
       (/\ tasks[c].pc = "done" /\ tasks[c].op \in GatedOps \cup {"getKeyDescription"}
        /\ tasks[c].fetched.ok
        /\ "encrypted" \in DOMAIN tasks[c].fetched.value.key) =>
         /\ Len(tasks[c].work) >= 1
         /\ tasks[c].work[1] = "decryptKeySecrets"

\* a sign was served from the cache entry of an encrypted record and
\* returned a signature, and the entry is still cached
C30_Witness ==
  \E c \in Callers :
    /\ tasks[c].pc = "done" /\ tasks[c].op = "sign" /\ tasks[c].result.ok
    /\ ~tasks[c].missed
    /\ "encrypted" \in DOMAIN tasks[c].fetched.value.key
    /\ \E i \in 1..Len(cache) : cache[i].p = tasks[c].p

=============================================================================
